---- MODULE Spec2Model ----
(***************************************************************************)
(* Verification model of the routing and scheduling engine of ROUTING_MAPS *)
(* (open-route VRP solver, weekly partitioner, coordinate repair, weekly   *)
(* artifact persistence, matrix service and its on-disk cache).            *)
(*                                                                         *)
(* Each subsystem has its own specification (SpecVRP, SpecWeek, ...) over  *)
(* its own group of variables; the variables of the other subsystems stay  *)
(* at their idle values.                                                   *)
(***************************************************************************)
EXTENDS Integers, Sequences, FiniteSets, TLC

VARIABLES
    \* ---- open VRP solver (src/vrp/solver/or_tools_openvrp.py)
    stops,          \* scenario['stops'] as the sequence of their id_contacto
    vehicles,       \* scenario['vehicles'] as the sequence of their max_stops
    start_id,       \* scenario.get('start_id'), NoStart when absent
    solution,       \* the dict returned by solve_open_vrp, NoSolution before
    vrp_pc,         \* "idle" | "ready" | "done"
    balance_load,   \* rules['balance_load'] of the scenario
    routing_model,  \* the cost and constraint terms given to the routing engine
    engine,         \* what the engine returned: "not_run", "no_assignment", "assignment"
    matrix_kind,    \* which seconds_matrix and meters_matrix the solver was given
    duracion_min,   \* per stop: its duracion_min, NoDuration when the key is absent
    assignment,     \* the assignment the engine returned, per vehicle its node path
    \* ---- weekly partitioner (src/vrp/selection/semana.py)
    jobs_df,        \* the input pool: rows [id, xy] in row order
    n_days,         \* number of days N
    target_per_day, \* target per day T
    weekly,         \* the dict returned by build_weekly_shortlists: days, leftover_count
    week_pc,        \* "idle" | "ready" | "done"
    \* ---- coordinate repair (src/pre_procesamiento/prepro_localizacion.py)
    clients_df,     \* the client rows [id, lon, lat], then with the tag and final columns
    events_df,      \* the event rows [id, fecha, lon, lat]
    poly,           \* the perimeter geometry
    repair_pc,      \* "idle" | "ready" | "tagged" | "done" | "raised" | "filtered"
    df_inside,      \* the ids of the rows filtrar_dentro_cuadrante returned as inside
    \* ---- artifact persistence (src/vrp/selection/semana.py, src/vrp/__init__.py)
    fs,             \* the files: path -> [exists, data], data the chunks written so far
    run,            \* number of the current run; the documents of run r carry version r
    persist_pc,     \* the position of the running operation
    fopen,          \* TRUE while the file being written is open
    day,            \* index of the day being persisted
    persist_days,   \* len(weekly['days']) of the running persist
    clean,          \* overwrite and clean_subdirs of the running persist
    overwrite,      \* the overwrite argument of the running persist
    jobs_in,        \* the jobs_df handed to the running persist
    fs_before,      \* the files as they were when the running persist was called
    \* ---- matrix service (src/vrp/matrix/osrm.py, src/vrp/utils/cache.py)
    mcache,         \* the cache directory: key -> [payload, mtime]
    now,            \* the clock, in ticks
    calls,          \* number of compute_matrix calls made
    last_req,       \* the points of the last call
    last_res,       \* what the last call returned
    last_hit,       \* TRUE when the last call returned a cache entry
    last_age,       \* ticks since the entry returned by the last call was written
    last_backend,   \* how the backend answered the last call, "not_called" when it was not asked
    prev_req,       \* the points of the call before the last
    prev_res,       \* what the call before the last returned
    \* ---- cache keys (osrm.py, matrix_manager.py, cache.py)
    key_a, key_b,   \* two matrix requests
    keys,           \* the keys computed for them
    key_pc,
    \* ---- one cache file written and read concurrently (cache.py)
    cfile,          \* [exists, data]: the bytes of the file, in blocks
    w_pc,           \* per writer: "idle", "writing", "done"
    w_off,          \* per writer: the offset of its file object, in blocks
    loaded,         \* what the last load_cache returned
    loads,           \* number of load_cache calls made
    \* ---- route geometry (src/vrp/paths/osrm_route.py)
    route_seq,      \* the stop sequence of the last geometry request
    route_backend,  \* how the backend answers a /route request
    route_res,      \* what the last route_polyline call returned or raised
    route_cache,    \* the route cache: key -> stored result
    route_backend_calls, \* number of /route requests made
    route_calls,    \* number of geometry requests made
    enriched,        \* the geometry batch_route_polylines attached to the last route
    \* ---- orchestrator (src/vrp/__init__.py, VRPSystem.solve_open_vrp)
    orch_in,        \* the scenario and options of the last solve
    orch_env,       \* how the matrix service, the solver and the exports behaved in it
    orch_result,    \* the dict the last solve returned
    orch_written,   \* the artifact files the last solve created or wrote
    orch_files,     \* the artifact files on disk
    orch_calls,      \* number of solves made
    \* ---- run root (src/vrp/selection/semana.py, src/vrp/vrp_system.py)
    week_dirs,      \* directory name under the run root -> its mtime, 0 when absent
    latest_doc,     \* the document in <root>/latest.json, None when there is no file
    mclock,         \* the file system clock
    persisted_tag,  \* the week tag of the last persist_weekly_outputs
    resolved,        \* what the last get_latest_week returned
    \* ---- open TSP (src/solvers/tsp_single_vehicle.py)
    tsp_ids,        \* the ids of the last solve_open_tsp_dummy call
    tsp_env,        \* its other arguments and whether OR-Tools was importable
    tsp_route,      \* the cycle through the dummy node the engine returned, None without one
    tsp_result,     \* the dict the call returned
    tsp_calls,       \* number of calls made
    \* ---- week tag normalisation (src/pages/10_ruteo_piloto.py)
    tag_in,         \* the string typed in the week tag field
    today,          \* the current date, in days after Monday 2025-01-06
    tag_out,        \* what canonicalize_week_tag returned: <<tag, was_normalized>>
    tag_pc,          \* "ready" | "done"
    cost_matrix, full_route, open_path, total_cost,   \* the dummy-node reduction: the costs, the cycle, the path and its cost
    path_routes, path_n_locations, path_futures, path_detailed, path_result,
    path_pc         \* "ready" | "submitted" | "returned" | "raised"

vrpVars == <<stops, vehicles, start_id, solution, vrp_pc, balance_load, routing_model, engine,
             matrix_kind, duracion_min, assignment>>
weekVars == <<jobs_df, n_days, target_per_day, weekly, week_pc>>
repairVars == <<clients_df, events_df, poly, repair_pc, df_inside>>
persistVars == <<fs, run, persist_pc, fopen, day, persist_days, clean,
                 overwrite, jobs_in, fs_before>>
matrixVars == <<mcache, now, calls, last_req, last_res, last_hit, last_age,
                last_backend, prev_req, prev_res>>
keyVars == <<key_a, key_b, keys, key_pc>>
cacheVars == <<cfile, w_pc, w_off, loaded, loads>>

routeVars == <<route_seq, route_backend, route_res, route_cache, route_backend_calls, route_calls, enriched>>

orchVars == <<orch_in, orch_env, orch_result, orch_written, orch_files, orch_calls>>

latestVars == <<week_dirs, latest_doc, mclock, persisted_tag, resolved>>

tspVars == <<tsp_ids, tsp_env, tsp_route, tsp_result, tsp_calls>>

tagVars == <<tag_in, today, tag_out, tag_pc>>

dummyVars == <<cost_matrix, full_route, open_path, total_cost>>

pathsVars == <<path_routes, path_n_locations, path_futures, path_detailed, path_result, path_pc>>

vars == <<vrpVars, weekVars, repairVars, persistVars, matrixVars, keyVars, cacheVars, routeVars, orchVars, latestVars, tspVars, tagVars, dummyVars, pathsVars>>

\* what each subsystem leaves alone
notVrpVars == <<weekVars, repairVars, persistVars, matrixVars, keyVars, cacheVars, routeVars, orchVars, latestVars, tspVars, tagVars, dummyVars, pathsVars>>
notWeekVars == <<vrpVars, repairVars, persistVars, matrixVars, keyVars, cacheVars, routeVars, orchVars, latestVars, tspVars, tagVars, dummyVars, pathsVars>>
notRepairVars == <<vrpVars, weekVars, persistVars, matrixVars, keyVars, cacheVars, routeVars, orchVars, latestVars, tspVars, tagVars, dummyVars, pathsVars>>
notPersistVars == <<vrpVars, weekVars, repairVars, matrixVars, keyVars, cacheVars, routeVars, orchVars, latestVars, tspVars, tagVars, dummyVars, pathsVars>>
notMatrixVars == <<vrpVars, weekVars, repairVars, persistVars, keyVars, cacheVars, routeVars, orchVars, latestVars, tspVars, tagVars, dummyVars, pathsVars>>
notKeyVars == <<vrpVars, weekVars, repairVars, persistVars, matrixVars, cacheVars, routeVars, orchVars, latestVars, tspVars, tagVars, dummyVars, pathsVars>>
notCacheVars == <<vrpVars, weekVars, repairVars, persistVars, matrixVars, keyVars, routeVars, orchVars, latestVars, tspVars, tagVars, dummyVars, pathsVars>>
notRouteVars == <<vrpVars, weekVars, repairVars, persistVars, matrixVars, keyVars, cacheVars, orchVars, latestVars, tspVars, tagVars, dummyVars, pathsVars>>
notOrchVars == <<vrpVars, weekVars, repairVars, persistVars, matrixVars, keyVars, cacheVars, routeVars, latestVars, tspVars, tagVars, dummyVars, pathsVars>>
notLatestVars == <<vrpVars, weekVars, repairVars, persistVars, matrixVars, keyVars, cacheVars, routeVars, orchVars, tspVars, tagVars, dummyVars, pathsVars>>
notTspVars == <<vrpVars, weekVars, repairVars, persistVars, matrixVars, keyVars, cacheVars, routeVars, orchVars, latestVars, tagVars, dummyVars, pathsVars>>
notTagVars == <<vrpVars, weekVars, repairVars, persistVars, matrixVars, keyVars, cacheVars, routeVars, orchVars, latestVars, tspVars, dummyVars, pathsVars>>
notDummyVars == <<vrpVars, weekVars, repairVars, persistVars, matrixVars, keyVars, cacheVars, routeVars, orchVars, latestVars, tspVars, tagVars, pathsVars>>
notPathsVars == <<vrpVars, weekVars, repairVars, persistVars, matrixVars, keyVars, cacheVars, routeVars, orchVars, latestVars, tspVars, tagVars, dummyVars>>

\* ------------------------------------------------------------------------
\* Values before a subsystem has run, and the idle state of each subsystem
\* ------------------------------------------------------------------------

\* start_id is None
NoStart == 0
NoSolution == [state |-> "none"]
NoWeekly == [days |-> <<>>, leftover_count |-> 0]
NoPoly == [xlo |-> 0, xhi |-> 0, ylo |-> 0, yhi |-> 0]

VrpIdle ==
    /\ stops = <<>> /\ vehicles = <<>> /\ start_id = NoStart
    /\ solution = NoSolution /\ vrp_pc = "idle"
    /\ balance_load = FALSE /\ routing_model = {} /\ engine = "off"
    /\ matrix_kind = "off" /\ duracion_min = <<>> /\ assignment = <<>>

WeekIdle ==
    /\ jobs_df = <<>> /\ n_days = 0 /\ target_per_day = 0
    /\ weekly = NoWeekly /\ week_pc = "idle"

RepairIdle ==
    /\ clients_df = <<>> /\ events_df = <<>> /\ poly = NoPoly /\ repair_pc = "idle"
    /\ df_inside = {}

PersistIdle ==
    /\ fs = <<>> /\ run = 0 /\ persist_pc = "off" /\ fopen = FALSE
    /\ day = 0 /\ persist_days = 0 /\ clean = FALSE
    /\ overwrite = FALSE /\ jobs_in = 0 /\ fs_before = <<>>

NoResult == [success |-> FALSE, error |-> "none"]

MatrixIdle ==
    /\ mcache = <<>> /\ now = 0 /\ calls = 0
    /\ last_req = <<>> /\ last_res = NoResult /\ last_hit = FALSE /\ last_age = 0
    /\ last_backend = "off" /\ prev_req = <<>> /\ prev_res = NoResult

KeyIdle == key_a = <<>> /\ key_b = <<>> /\ keys = <<>> /\ key_pc = "off"

CacheIdle ==
    /\ cfile = [exists |-> FALSE, data |-> <<>>]
    /\ w_pc = <<>> /\ w_off = <<>> /\ loaded = <<>> /\ loads = 0

RouteIdle ==
    /\ route_seq = <<>> /\ route_backend = "off" /\ route_res = <<>> /\ route_cache = <<>>
    /\ route_backend_calls = 0 /\ route_calls = 0 /\ enriched = <<>>

OrchIdle ==
    /\ orch_in = <<>> /\ orch_env = <<>> /\ orch_result = <<>> /\ orch_written = {}
    /\ orch_files = {} /\ orch_calls = 0

LatestIdle ==
    /\ week_dirs = <<>> /\ latest_doc = <<>> /\ mclock = 0 /\ persisted_tag = <<>> /\ resolved = <<>>

TspIdle ==
    /\ tsp_ids = <<>> /\ tsp_env = <<>> /\ tsp_route = <<>> /\ tsp_result = <<>> /\ tsp_calls = 0

TagIdle ==
    /\ tag_in = <<>> /\ today = 0 /\ tag_out = <<>> /\ tag_pc = "off"

DummyIdle ==
    /\ cost_matrix = <<>> /\ full_route = <<>> /\ open_path = <<>> /\ total_cost = 0

PathsIdle ==
    /\ path_routes = <<>> /\ path_n_locations = 0 /\ path_futures = {} /\ path_detailed = <<>> /\ path_result = <<>> /\ path_pc = "off"

\* every subsystem but one is idle
IdleExcept(sub) ==
    /\ sub = "paths" \/ PathsIdle
    /\ sub = "dummy" \/ DummyIdle
    /\ sub = "tag" \/ TagIdle
    /\ sub = "tsp" \/ TspIdle
    /\ sub = "latest" \/ LatestIdle
    /\ sub = "orch" \/ OrchIdle
    /\ sub = "route" \/ RouteIdle
    /\ sub = "matrix" \/ MatrixIdle
    /\ sub = "key" \/ KeyIdle
    /\ sub = "cache" \/ CacheIdle
    /\ sub = "vrp" \/ VrpIdle
    /\ sub = "week" \/ WeekIdle
    /\ sub = "repair" \/ RepairIdle
    /\ sub = "persist" \/ PersistIdle

\* ------------------------------------------------------------------------
\* Generic helpers
\* ------------------------------------------------------------------------

Range(s) == {s[i] : i \in DOMAIN s}

RECURSIVE SumSeq(_)
SumSeq(s) == IF s = <<>> THEN 0 ELSE Head(s) + SumSeq(Tail(s))

SeqsUpTo(S, n) == UNION {[1..k -> S] : k \in 0..n}

\* sequences without repetition over S, of length at most n
InjSeqs(S, n) == {s \in SeqsUpTo(S, n) : \A i, j \in DOMAIN s : i # j => s[i] # s[j]}

\* [x for x in s if P(x)], order kept
RECURSIVE FilterSeq(_, _)
FilterSeq(s, keep) ==
    IF s = <<>> THEN <<>>
    ELSE IF Head(s) \in keep THEN <<Head(s)>> \o FilterSeq(Tail(s), keep)
         ELSE FilterSeq(Tail(s), keep)

\* list.index(x): position of the first occurrence
IndexOf(s, x) == CHOOSE i \in DOMAIN s : s[i] = x /\ \A j \in 1..(i-1) : s[j] # x

\* ------------------------------------------------------------------------
\* Open VRP solver
\* ------------------------------------------------------------------------

MaxStops == 3
MaxVehicles == 2
MaxCap == 2
NumStopIds == 3

StopIds == 1..NumStopIds
\* served_pct of _calculate_global_kpis, in tenths of a percent
served_pct(total_served, total_stops) ==
    IF total_stops > 0 THEN (2000 * total_served + total_stops) \div (2 * total_stops) ELSE 0

\* _empty_solution(unserved): the keys of the dict are routes, unserved, kpis
empty_solution(unserved) ==
    [routes |-> <<>>, unserved |-> unserved,
     kpis |-> [served_pct |-> 0, km_total |-> 0, min_total |-> 0]]

\* the matrices a scenario may carry, by kind: distances along a line, or
\* road values that differ with the direction
MatrixKinds == {"line", "one_way"}

\* seconds_matrix[i][j], indices from 1
seconds_cell(kind, i, j) ==
    IF i = j THEN 0
    ELSE IF kind = "line" THEN 60 * (IF i > j THEN i - j ELSE j - i)
    ELSE IF i < j THEN 60 * (j - i) ELSE 180 * (i - j)

\* meters_matrix[i][j], indices from 1
meters_cell(kind, i, j) ==
    IF i = j THEN 0
    ELSE IF kind = "line" THEN 1000 * (IF i > j THEN i - j ELSE j - i)
    ELSE IF i < j THEN 1000 * (j - i) ELSE 3000 * (i - j)

\* the stop has no 'duracion_min' key
NoDuration == -1
\* stop.get('duracion_min', 8)
default_duracion_min == 8

\* the service minutes the stops of a scenario may carry
Durations(n) == {[i \in 1..n |-> NoDuration],
                 [i \in 1..n |-> IF i = 1 THEN 5 ELSE NoDuration]}

\* id_to_idx = {s['id_contacto']: i for i, s in enumerate(stops)}: a repeated id
\* keeps its last index
id_to_idx(stop_ids, id) ==
    CHOOSE i \in DOMAIN stop_ids :
        stop_ids[i] = id /\ \A j \in DOMAIN stop_ids : stop_ids[j] = id => j <= i

\* the service seconds of one stop id: the first stop with that id counts
service_seconds(stop_ids, durs, id) ==
    LET d == durs[IndexOf(stop_ids, id)]
    IN  (IF d = NoDuration THEN default_duracion_min ELSE d) * 60

\* _calculate_route_metrics: km in hundredths, min in tenths of a minute
calculate_route_metrics(sequence, stop_ids, kind, durs) ==
    IF Len(sequence) <= 1 THEN [km |-> 0, min |-> 0]
    ELSE LET total_seconds ==
                 SumSeq([i \in 1..(Len(sequence) - 1) |->
                     seconds_cell(kind, id_to_idx(stop_ids, sequence[i]),
                                        id_to_idx(stop_ids, sequence[i + 1]))])
             total_meters ==
                 SumSeq([i \in 1..(Len(sequence) - 1) |->
                     meters_cell(kind, id_to_idx(stop_ids, sequence[i]),
                                       id_to_idx(stop_ids, sequence[i + 1]))])
             service ==
                 SumSeq([i \in DOMAIN sequence |->
                     service_seconds(stop_ids, durs, sequence[i])])
         IN  [km |-> total_meters \div 10, min |-> (total_seconds + service) \div 6]

\* the terms solve_open_vrp gives the routing model: the arc cost evaluator,
\* the 'Capacity' dimension and one disjunction per stop; rules['balance_load']
\* is read and adds nothing
routing_terms(balance) == {"arc_cost", "capacity", "disjunction"}

\* What routing.SolveWithParameters can return as an assignment: per vehicle a
\* path over real nodes (indices into stops), each real node on at most one
\* path (a node is active once or dropped through its disjunction), and the
\* 'Capacity' dimension bounding the number of real nodes per vehicle.
Assignments(n_stops, caps) ==
    {a \in [DOMAIN caps -> InjSeqs(1..n_stops, n_stops)] :
        /\ \A v \in DOMAIN caps : Len(a[v]) <= caps[v]
        /\ \A v, w \in DOMAIN caps : v # w => Range(a[v]) \cap Range(a[w]) = {}}

\* _reorder_route_with_start_id
reorder_route_with_start_id(sequence, sid) ==
    IF sid \notin Range(sequence) THEN sequence
    ELSE LET k == IndexOf(sequence, sid)
         IN SubSeq(sequence, k, Len(sequence)) \o SubSeq(sequence, 1, k - 1)

\* the route_sequence of one vehicle in _extract_solution
route_sequence(a, v, stop_ids, sid) ==
    LET raw == [i \in DOMAIN a[v] |-> stop_ids[a[v][i]]]
    IN IF sid # NoStart /\ sid \in Range(raw)
       THEN reorder_route_with_start_id(raw, sid)
       ELSE raw

\* routes: vehicles in iteration order, empty routes skipped
RECURSIVE build_routes(_, _, _, _)
build_routes(a, v, stop_ids, sid) ==
    IF v > Len(a) THEN <<>>
    ELSE LET seq == route_sequence(a, v, stop_ids, sid)
             rest == build_routes(a, v + 1, stop_ids, sid)
             metrics == calculate_route_metrics(seq, stop_ids, matrix_kind, duracion_min)
         IN IF seq # <<>>
            THEN <<[vehicle_id |-> v, sequence |-> seq, served |-> Len(seq),
                    km |-> metrics.km, min |-> metrics.min]>> \o rest
            ELSE rest

served_ids(routes) == UNION {Range(routes[r].sequence) : r \in DOMAIN routes}

\* unserved = [stop_id for stop_id in stop_ids if stop_id not in served_ids]
unserved_of(stop_ids, routes) ==
    FilterSeq(stop_ids, Range(stop_ids) \ served_ids(routes))

\* _extract_solution
extract_solution(a, stop_ids, sid) ==
    LET routes == build_routes(a, 1, stop_ids, sid)
    IN [routes |-> routes, unserved |-> unserved_of(stop_ids, routes),
        kpis |-> [served_pct |->
                    served_pct(SumSeq([r \in DOMAIN routes |-> routes[r].served]),
                               Len(stop_ids)),
                  km_total |-> SumSeq([r \in DOMAIN routes |-> routes[r].km]),
                  min_total |-> SumSeq([r \in DOMAIN routes |-> routes[r].min])]]

VrpInit ==
    /\ stops \in SeqsUpTo(StopIds, MaxStops)
    /\ vehicles \in SeqsUpTo(1..MaxCap, MaxVehicles)
    /\ start_id \in {NoStart} \cup StopIds
    /\ solution = NoSolution
    /\ vrp_pc = "ready"
    /\ balance_load \in BOOLEAN
    /\ routing_model = {}
    /\ engine = "not_run"
    /\ matrix_kind \in MatrixKinds
    /\ duracion_min \in Durations(Len(stops))
    /\ assignment = <<>>
    /\ IdleExcept("vrp")

\* solve_open_vrp, n_stops == 0
SolveNoStops ==
    /\ vrp_pc = "ready"
    /\ Len(stops) = 0
    /\ solution' = empty_solution(<<>>)
    /\ vrp_pc' = "done"
    /\ routing_model' = routing_model
    /\ engine' = "not_run"
    /\ UNCHANGED <<stops, vehicles, start_id, balance_load, matrix_kind, duracion_min,
                   assignment, notVrpVars>>

\* solve_open_vrp, n_vehicles == 0
SolveNoVehicles ==
    /\ vrp_pc = "ready"
    /\ Len(stops) > 0 /\ Len(vehicles) = 0
    /\ solution' = empty_solution(stops)
    /\ vrp_pc' = "done"
    /\ routing_model' = routing_model
    /\ engine' = "not_run"
    /\ UNCHANGED <<stops, vehicles, start_id, balance_load, matrix_kind, duracion_min,
                   assignment, notVrpVars>>

\* solve_open_vrp, the engine returns no assignment
SolveNoAssignment ==
    /\ vrp_pc = "ready"
    /\ Len(stops) > 0 /\ Len(vehicles) > 0
    /\ solution' = empty_solution(stops)
    /\ vrp_pc' = "done"
    /\ routing_model' = routing_terms(balance_load)
    /\ engine' = "no_assignment"
    /\ UNCHANGED <<stops, vehicles, start_id, balance_load, matrix_kind, duracion_min,
                   assignment, notVrpVars>>

\* solve_open_vrp, the engine returns an assignment
SolveExtract ==
    /\ vrp_pc = "ready"
    /\ Len(stops) > 0 /\ Len(vehicles) > 0
    /\ \E a \in Assignments(Len(stops), vehicles) :
          /\ solution' = extract_solution(a, stops, start_id)
          /\ assignment' = a
    /\ vrp_pc' = "done"
    /\ routing_model' = routing_terms(balance_load)
    /\ engine' = "assignment"
    /\ UNCHANGED <<stops, vehicles, start_id, balance_load, matrix_kind, duracion_min,
                   notVrpVars>>

VrpNext == SolveNoStops \/ SolveNoVehicles \/ SolveNoAssignment \/ SolveExtract

SpecVRP == VrpInit /\ [][VrpNext]_vars

\* the routes of the solution whose sequence holds the id
RoutesWith(id) == {r \in DOMAIN solution.routes : id \in Range(solution.routes[r].sequence)}

\* C1: in every returned solution (empty solutions included) every input stop
\* id is in the sequence of exactly one route and not unserved, or in no
\* route and in the unserved list.
C1_ServedXorUnserved ==
    vrp_pc = "done" =>
        \A id \in Range(stops) :
            \/ Cardinality(RoutesWith(id)) = 1 /\ id \notin Range(solution.unserved)
            \/ Cardinality(RoutesWith(id)) = 0 /\ id \in Range(solution.unserved)

\* the number of stops the vehicle of a route serves never exceeds its stop cap
C15_CapRespected ==
    \A r \in DOMAIN solution.routes :
        solution.routes[r].served <= vehicles[solution.routes[r].vehicle_id]

\* C15: when the sum of the vehicles' stop caps is smaller than the number of
\* stops, the returned solution has a non-empty unserved list and no vehicle
\* serves more stops than its cap.
C15_ShortfallLeavesUnserved ==
    (vrp_pc = "done" /\ SumSeq(vehicles) < Len(stops)) =>
        /\ solution.unserved # <<>>
        /\ C15_CapRespected

\* C16: when the engine returns no assignment the solver returns (it does not
\* raise) an empty solution: no routes, every input stop unserved, and a
\* status string.
C16_NoAssignmentEmptyWithStatus ==
    engine = "no_assignment" =>
        /\ solution.routes = <<>>
        /\ solution.unserved = stops
        /\ "status" \in DOMAIN solution

\* C17: the objective given to the engine has a balance term on the variance
\* of the per-vehicle stop counts exactly when load balancing is enabled.
C17_BalanceTermIffEnabled ==
    engine \in {"no_assignment", "assignment"} =>
        (balance_load <=> "balance" \in routing_model)

\* q is p turned so that id comes first, the cyclic order of p kept
IsRotationTo(q, p, id) ==
    /\ q[1] = id
    /\ \E k \in DOMAIN p : q = SubSeq(p, k, Len(p)) \o SubSeq(p, 1, k - 1)

\* C27: start-id pinning is purely cosmetic: the route that holds start_id is
\* rotated so that start_id comes first, and the served and unserved sets, the
\* other routes and the reported kilometres, minutes and KPIs are the same as
\* without pinning.
C27_PinningIsCosmetic ==
    (engine = "assignment" /\ start_id # NoStart) =>
        LET plain == extract_solution(assignment, stops, NoStart)
        IN  /\ Len(solution.routes) = Len(plain.routes)
            /\ \A r \in DOMAIN solution.routes :
                  LET q == solution.routes[r]
                      p == plain.routes[r]
                  IN  /\ q.vehicle_id = p.vehicle_id
                      /\ IF start_id \in Range(p.sequence)
                         THEN IsRotationTo(q.sequence, p.sequence, start_id)
                         ELSE q.sequence = p.sequence
                      /\ q.km = p.km /\ q.min = p.min
            /\ solution.unserved = plain.unserved
            /\ solution.kpis = plain.kpis

\* the seconds between the consecutive stops of a sequence
TravelSeconds(sequence) ==
    SumSeq([i \in 1..(Len(sequence) - 1) |->
        seconds_cell(matrix_kind, id_to_idx(stops, sequence[i]),
                                  id_to_idx(stops, sequence[i + 1]))])

\* the service seconds of the stops of a sequence, 8 minutes for a stop without its own
ServiceSeconds(sequence) ==
    SumSeq([i \in DOMAIN sequence |-> service_seconds(stops, duracion_min, sequence[i])])

\* C28: the minutes reported for each route are its travel time between
\* consecutive stops plus the service time of every stop in it (the stop's own
\* minutes, or 8), for routes of any length, a single stop included.
C28_RouteMinutesIncludeService ==
    engine = "assignment" =>
        \A r \in DOMAIN solution.routes :
            solution.routes[r].min * 6 =
                TravelSeconds(solution.routes[r].sequence)
                    + ServiceSeconds(solution.routes[r].sequence)

\* ------------------------------------------------------------------------
\* Weekly partitioner: build_weekly_shortlists
\* ------------------------------------------------------------------------

MaxRows == 3
MaxDays == 2
MaxTarget == 2

ClientIds == {1, 2}
\* points of a common parallel, one grid unit apart: haversine distance
\* between two of them grows with the number of units between them
Positions == {0, 1, 2}
\* the vehicle's start point (vehicle_row start_lon/start_lat)
StartPos == {1}

\* a (lon, lat) cell pair of a row: numeric, NaN/None, or a non-numeric text
Coords == [kind : {"num"}, v : Positions] \cup [kind : {"nan", "text"}, v : {0}]
JobRows == [id : ClientIds, xy : Coords]

\* DataFrame.dropna(): rows with a NaN cell go
dropna(rows) == LET notna(r) == r.xy.kind # "nan" IN SelectSeq(rows, notna)

\* DataFrame.drop_duplicates(subset=['id_contacto']): the first row of each id stays
RECURSIVE drop_duplicates(_, _)
drop_duplicates(rows, seen) ==
    IF rows = <<>> THEN <<>>
    ELSE IF Head(rows).id \in seen THEN drop_duplicates(Tail(rows), seen)
         ELSE <<Head(rows)>> \o drop_duplicates(Tail(rows), seen \cup {Head(rows).id})

\* pd.to_numeric(errors='coerce') then dropna(subset=['lon','lat'])
numeric_rows(rows) == LET isnum(r) == r.xy.kind = "num" IN SelectSeq(rows, isnum)

\* valid_jobs
valid_jobs(df) == numeric_rows(drop_duplicates(dropna(df), {}))

\* haversine_meters between two points of the parallel, in grid units
haversine_meters(a, b) == IF a >= b THEN a - b ELSE b - a

\* available_pool without the filter on used_contacts
available_pool_Unfiltered(remaining_pool, used_contacts) == remaining_pool

\* available_pool = remaining_pool[~remaining_pool['id_contacto'].isin(used_contacts)]
available_pool(remaining_pool, used_contacts) ==
    LET free(r) == r.id \notin used_contacts IN SelectSeq(remaining_pool, free)

\* min(distances, key=lambda x: x[1]): the first row at minimum distance
closest_idx(pool_copy, cur) ==
    CHOOSE i \in DOMAIN pool_copy :
        /\ \A j \in DOMAIN pool_copy :
              haversine_meters(cur, pool_copy[i].xy.v) <= haversine_meters(cur, pool_copy[j].xy.v)
        /\ \A j \in 1..(i - 1) :
              haversine_meters(cur, pool_copy[j].xy.v) > haversine_meters(cur, pool_copy[i].xy.v)

RemoveAt(s, i) == SubSeq(s, 1, i - 1) \o SubSeq(s, i + 1, Len(s))

\* the greedy loop of one day: k picks left, cursor at cur
RECURSIVE selected_for_day(_, _, _)
selected_for_day(pool_copy, cur, k) ==
    IF k = 0 \/ pool_copy = <<>> THEN <<>>
    ELSE LET i == closest_idx(pool_copy, cur)
         IN <<pool_copy[i]>> \o
            selected_for_day(RemoveAt(pool_copy, i), pool_copy[i].xy.v, k - 1)

Min2(a, b) == IF a <= b THEN a ELSE b

RowIds(rows) == {rows[i].id : i \in DOMAIN rows}

\* the loop over the days: day_idx .. n, used_contacts so far
RECURSIVE build_days(_, _, _, _, _, _)
build_days(remaining_pool, used_contacts, day_idx, n, target, start) ==
    IF day_idx > n THEN <<>>
    ELSE LET avail == available_pool(remaining_pool, used_contacts)
             sel == IF avail = <<>> THEN <<>>
                    ELSE selected_for_day(avail, start, Min2(target, Len(avail)))
         IN <<[day_index |-> day_idx, count |-> Len(sel), df |-> sel]>> \o
            build_days(remaining_pool, used_contacts \cup RowIds(sel),
                       day_idx + 1, n, target, start)

\* build_weekly_shortlists
build_weekly_shortlists(df, n, target, start) ==
    LET valid == valid_jobs(df)
        days == build_days(valid, {}, 1, n, target, start)
        used == UNION {RowIds(days[d].df) : d \in DOMAIN days}
    IN [days |-> days, leftover_count |-> Len(valid) - Cardinality(used)]

WeekInit ==
    /\ jobs_df \in SeqsUpTo(JobRows, MaxRows)
    /\ n_days \in 0..MaxDays
    /\ target_per_day \in 0..MaxTarget
    /\ weekly = NoWeekly
    /\ week_pc = "ready"
    /\ IdleExcept("week")

\* one call of build_weekly_shortlists
BuildWeeklyShortlists ==
    /\ week_pc = "ready"
    /\ \E start \in StartPos :
          weekly' = build_weekly_shortlists(jobs_df, n_days, target_per_day, start)
    /\ week_pc' = "done"
    /\ UNCHANGED <<jobs_df, n_days, target_per_day, notWeekVars>>

WeekNext == BuildWeeklyShortlists

SpecWeek == WeekInit /\ [][WeekNext]_vars

\* C2: the shortlists of two different days of the output have no client id
\* in common, whatever the pool (repeated ids included), N and T.
C2_DaysDisjoint ==
    week_pc = "done" =>
        \A d1, d2 \in DOMAIN weekly.days :
            d1 # d2 => RowIds(weekly.days[d1].df) \cap RowIds(weekly.days[d2].df) = {}

\* a pool with a repeated id was partitioned into two non-empty days
C2_Witness ==
    /\ week_pc = "done"
    /\ Len(weekly.days) >= 2
    /\ weekly.days[1].count > 0 /\ weekly.days[2].count > 0
    /\ \E i, j \in DOMAIN jobs_df :
          i # j /\ jobs_df[i].id = jobs_df[j].id
                /\ jobs_df[i].xy.kind = "num" /\ jobs_df[j].xy.kind = "num"

\* the ids picked before pick k of day d
PickedBefore(d, k) ==
    UNION {RowIds(weekly.days[e].df) : e \in 1..(d - 1)}
        \cup {weekly.days[d].df[j].id : j \in 1..(k - 1)}

\* the rows still in the pool at pick k of day d
PoolAt(d, k) ==
    {r \in Range(valid_jobs(jobs_df)) : r.id \notin PickedBefore(d, k)}

\* the cursor at pick k of day d: the start point, then the last client picked
CursorAt(d, k) ==
    IF k = 1 THEN CHOOSE st \in StartPos : TRUE ELSE weekly.days[d].df[k - 1].xy.v

\* C25: at every pick the partitioner selects, among the clients still in the
\* pool, one at minimum haversine distance from the cursor, and among several
\* at that minimum distance the one with the lowest client id.
C25_NearestThenLowestId ==
    week_pc = "done" =>
        \A d \in DOMAIN weekly.days : \A k \in DOMAIN weekly.days[d].df :
            LET sel == weekly.days[d].df[k]
                cur == CursorAt(d, k)
            IN  \A r \in PoolAt(d, k) :
                    /\ haversine_meters(cur, sel.xy.v) <= haversine_meters(cur, r.xy.v)
                    /\ haversine_meters(cur, sel.xy.v) = haversine_meters(cur, r.xy.v)
                          => sel.id <= r.id

\* the clients assigned to the days before day d
AssignedBefore(d) == SumSeq([e \in 1..(d - 1) |-> weekly.days[e].count])

\* C26: with P unique eligible clients, N days and target T, day d receives
\* exactly min(T, clients still unassigned when day d starts) clients, and the
\* leftover is P minus the clients assigned over all days, never negative.
C26_DayCountsAndLeftover ==
    week_pc = "done" =>
        LET P == Len(valid_jobs(jobs_df))
        IN  /\ Len(weekly.days) = n_days
            /\ \A d \in DOMAIN weekly.days :
                  /\ weekly.days[d].count = Min2(target_per_day, P - AssignedBefore(d))
                  /\ Len(weekly.days[d].df) = weekly.days[d].count
            /\ weekly.leftover_count = P - AssignedBefore(n_days + 1)
            /\ weekly.leftover_count >= 0

\* two eligible clients, two days, target one: one client each day, none left
\* over; the rows handed in held a repeated id
C26_Witness ==
    /\ week_pc = "done"
    /\ Len(valid_jobs(jobs_df)) = 2 /\ Len(jobs_df) = 3
    /\ n_days = 2 /\ target_per_day = 1
    /\ weekly.days[1].count = 1 /\ weekly.days[2].count = 1
    /\ weekly.leftover_count = 0

\* ------------------------------------------------------------------------
\* Coordinate repair: tag_in_perimetro, apply_two_attempt_fix
\* ------------------------------------------------------------------------

MaxClients == 2
\* groupby('id_contacto').head(2): at most two events per client are fetched
TopEvents == 2

\* a missing cell (None, NaN, or a value pd.to_numeric coerces to NaN)
NaN == -999
\* a cell holding text that float() cannot convert
NotNumber == -998
isna(x) == x = NaN
notna(x) == x # NaN
\* Series.between(lo, hi) and the chained comparison lo <= x <= hi: False on NaN
between(x, lo, hi) == notna(x) /\ lo <= x /\ x <= hi

\* the perimeter used: a rectangle in degrees
Perimeters == {[xlo |-> 1, xhi |-> 3, ylo |-> 1, yhi |-> 3]}

\* original coordinates of a client: inside, on the boundary, outside, zero, missing
OriginalPts == {<<2, 2>>, <<1, 2>>, <<4, 2>>, <<0, 2>>, <<2, NaN>>}
\* coordinates of a stored event (non-null, non-zero): inside, boundary, outside,
\* out of range, not a number
EventPts == {<<2, 2>>, <<3, 2>>, <<4, 2>>, <<181, 2>>, <<NotNumber, 2>>}
EventIds == {1, 2}

\* shapely: poly.contains(Point(lon, lat)), the point is in the interior
poly_contains(g, lon, lat) ==
    g.xlo < lon /\ lon < g.xhi /\ g.ylo < lat /\ lat < g.yhi

\* shapely: poly.touches(Point(lon, lat)), the point is on the boundary
poly_touches(g, lon, lat) ==
    /\ g.xlo <= lon /\ lon <= g.xhi /\ g.ylo <= lat /\ lat <= g.yhi
    /\ ~poly_contains(g, lon, lat)

\* mask_valid of tag_in_perimetro
tag_mask_valid(row) ==
    /\ notna(row.lon) /\ notna(row.lat)
    /\ row.lon # 0 /\ row.lat # 0
    /\ between(row.lon, -180, 180) /\ between(row.lat, -90, 90)

\* the in_poly_orig cell tag_in_perimetro gives a row
tag_row(row, g) ==
    IF tag_mask_valid(row)
    THEN poly_contains(g, row.lon, row.lat) \/ poly_touches(g, row.lon, row.lat)
    ELSE FALSE

\* tag_in_perimetro
tag_in_perimetro(df, g) ==
    [i \in DOMAIN df |->
        [id |-> df[i].id, lon |-> df[i].lon, lat |-> df[i].lat,
         in_poly_orig |-> tag_row(df[i], g)]]

\* mask_valid_coords of apply_two_attempt_fix
fix_mask_valid_coords(row) ==
    notna(row.lon) /\ notna(row.lat) /\ row.lon # 0 /\ row.lat # 0

\* mask_candidates of apply_two_attempt_fix
fix_mask_candidates(row) == ~fix_mask_valid_coords(row) \/ ~row.in_poly_orig

\* insert an event into a list sorted by fecha, newest first
RECURSIVE insert_desc(_, _)
insert_desc(e, sorted) ==
    IF sorted = <<>> THEN <<e>>
    ELSE IF e.fecha > Head(sorted).fecha THEN <<e>> \o sorted
         ELSE <<Head(sorted)>> \o insert_desc(e, Tail(sorted))

\* sort_values('fecha_evento', ascending=False)
RECURSIVE sort_desc(_)
sort_desc(events) ==
    IF events = <<>> THEN <<>> ELSE insert_desc(Head(events), sort_desc(Tail(events)))

\* DataFrame.head(n)
head(s, n) == SubSeq(s, 1, Min2(n, Len(s)))

\* events_df[events_df['id_contacto'] == id_contacto].sort_values(...).head(2)
contact_events(events, id) ==
    LET mine(e) == e.id = id IN head(sort_desc(SelectSeq(events, mine)), 2)

\* event_accepted without the perimeter test
event_accepted_RangeOnly(event, g) ==
    between(event.lon, -180, 180) /\ between(event.lat, -90, 90)

\* the test an event passes to be adopted
event_accepted(event, g) ==
    /\ between(event.lon, -180, 180) /\ between(event.lat, -90, 90)
    /\ (poly_contains(g, event.lon, event.lat) \/ poly_touches(g, event.lon, event.lat))

\* the attempts loop: the number of the first adopted event, 0 when none is
RECURSIVE first_accepted(_, _, _)
first_accepted(evs, attempt, g) ==
    IF attempt > Len(evs) THEN 0
    ELSE IF event_accepted(evs[attempt], g) THEN attempt
         ELSE first_accepted(evs, attempt + 1, g)

\* float(event[...]) raises ValueError or TypeError
float_raises(x) == x = NotNumber

\* the attempts loop without its try block
attempt_guarded_Unguarded == FALSE

\* the body of each attempt runs inside try / except Exception: continue
attempt_guarded == TRUE

\* whether an exception leaves the attempts loop of a candidate: an attempt that
\* is reached (no earlier one was adopted) raises and nothing catches it
attempts_raise(evs, g) ==
    \E k \in DOMAIN evs :
        /\ float_raises(evs[k].lon) \/ float_raises(evs[k].lat)
        /\ \A j \in 1..(k - 1) : ~event_accepted(evs[j], g)
        /\ ~attempt_guarded

\* whether apply_two_attempt_fix raises on these frames
fix_raises(df, events, g) ==
    \E i \in DOMAIN df :
        /\ fix_mask_candidates(df[i])
        /\ attempts_raise(contact_events(events, df[i].id), g)

SourceName(attempt) == IF attempt = 1 THEN "event_1" ELSE "event_2"

\* the final columns apply_two_attempt_fix gives a row
fix_row(row, events, g) ==
    LET base == [id |-> row.id, lon |-> row.lon, lat |-> row.lat,
                 in_poly_orig |-> row.in_poly_orig]
    IN IF ~fix_mask_candidates(row)
       THEN base @@ [lon_final |-> row.lon, lat_final |-> row.lat,
                     coord_source |-> "original", in_poly_final |-> row.in_poly_orig]
       ELSE LET evs == contact_events(events, row.id)
                k == first_accepted(evs, 1, g)
            IN IF k > 0
               THEN base @@ [lon_final |-> evs[k].lon, lat_final |-> evs[k].lat,
                             coord_source |-> SourceName(k), in_poly_final |-> TRUE]
               ELSE base @@ [lon_final |-> NaN, lat_final |-> NaN,
                             coord_source |-> "none", in_poly_final |-> FALSE]

\* apply_two_attempt_fix
apply_two_attempt_fix(df, events, g) == [i \in DOMAIN df |-> fix_row(df[i], events, g)]

\* the events of one client as the query returns them: newest first
EventRows(id, pts) ==
    [k \in DOMAIN pts |->
        [id |-> id, fecha |-> Len(pts) - k + 1, lon |-> pts[k][1], lat |-> pts[k][2]]]

RepairInit ==
    /\ \E pts \in SeqsUpTo(OriginalPts, MaxClients) :
          clients_df = [i \in DOMAIN pts |-> [id |-> i, lon |-> pts[i][1], lat |-> pts[i][2]]]
    /\ \E e1, e2 \in SeqsUpTo(EventPts, TopEvents) :
          events_df = EventRows(1, e1) \o EventRows(2, e2)
    /\ poly \in Perimeters
    /\ repair_pc = "ready"
    /\ df_inside = {}
    /\ IdleExcept("repair")

\* df_tagged = tag_in_perimetro(df_merged, perimetro)
TagInPerimetro ==
    /\ repair_pc = "ready"
    /\ clients_df' = tag_in_perimetro(clients_df, poly)
    /\ repair_pc' = "tagged"
    /\ UNCHANGED <<events_df, poly, df_inside, notRepairVars>>

\* df_final = apply_two_attempt_fix(df_tagged, df_events, perimetro)
ApplyTwoAttemptFix ==
    /\ repair_pc = "tagged"
    /\ IF fix_raises(clients_df, events_df, poly)
       THEN clients_df' = clients_df /\ repair_pc' = "raised"
       ELSE /\ clients_df' = apply_two_attempt_fix(clients_df, events_df, poly)
            /\ repair_pc' = "done"
    /\ UNCHANGED <<events_df, poly, df_inside, notRepairVars>>

\* mask_valid of filtrar_dentro_cuadrante on the columns it is given
cuadrante_mask_valid(lon, lat) ==
    /\ notna(lat) /\ notna(lon)
    /\ between(lat, -90, 90) /\ between(lon, -180, 180)

\* filtrar_dentro_cuadrante: the rows of df_inside, tested with poly.contains
filtrar_dentro_cuadrante(df, g) ==
    {df[i].id : i \in {k \in DOMAIN df :
        /\ cuadrante_mask_valid(df[k].lon_final, df[k].lat_final)
        /\ poly_contains(g, df[k].lon_final, df[k].lat_final)}}

\* the final filter of the pipeline, on the repaired coordinates
FiltrarDentroCuadrante ==
    /\ repair_pc = "done"
    /\ df_inside' = filtrar_dentro_cuadrante(clients_df, poly)
    /\ repair_pc' = "filtered"
    /\ UNCHANGED <<clients_df, events_df, poly, notRepairVars>>

RepairNext == TagInPerimetro \/ ApplyTwoAttemptFix \/ FiltrarDentroCuadrante

SpecRepair == RepairInit /\ [][RepairNext]_vars

\* C3: every repaired client with in_poly_final true has non-null final
\* coordinates that lie in the perimeter (interior or boundary), whatever its
\* coordinate source.
C3_FinalInsidePerimeter ==
    repair_pc = "done" =>
        \A i \in DOMAIN clients_df :
            clients_df[i].in_poly_final =>
                /\ notna(clients_df[i].lon_final) /\ notna(clients_df[i].lat_final)
                /\ \/ poly_contains(poly, clients_df[i].lon_final, clients_df[i].lat_final)
                   \/ poly_touches(poly, clients_df[i].lon_final, clients_df[i].lat_final)

\* one client kept its original point and another was repaired from its second event
C3_Witness ==
    /\ repair_pc = "done"
    /\ \E i, j \in DOMAIN clients_df :
          /\ clients_df[i].in_poly_final /\ clients_df[i].coord_source = "original"
          /\ clients_df[j].in_poly_final /\ clients_df[j].coord_source = "event_2"

\* C22: every point-in-perimeter test treats the perimeter as closed: a point
\* with valid coordinates is reported inside exactly when it is strictly inside
\* the perimeter or on its boundary.
C22_PerimeterIsClosed ==
    repair_pc = "filtered" =>
        \A i \in DOMAIN clients_df :
            cuadrante_mask_valid(clients_df[i].lon_final, clients_df[i].lat_final) =>
                (clients_df[i].id \in df_inside <=>
                    \/ poly_contains(poly, clients_df[i].lon_final, clients_df[i].lat_final)
                    \/ poly_touches(poly, clients_df[i].lon_final, clients_df[i].lat_final))

\* the events of a client that the attempts loop looks at
examined_events(row) == contact_events(events_df, row.id)

\* a client that needs repair and has no event that can be adopted
Unrepairable(row) ==
    /\ fix_mask_candidates(row)
    /\ \A k \in DOMAIN examined_events(row) : ~event_accepted(examined_events(row)[k], poly)

\* C21: coordinate repair never raises because of one client or one of its
\* events (missing, non-numeric or out-of-range values): such a client ends with
\* coord_source none and in_poly_final false, and every other client is still
\* given its final columns.
C21_PerClientProblemsAbsorbed ==
    /\ repair_pc # "raised"
    /\ repair_pc = "done" =>
          \A i \in DOMAIN clients_df :
              /\ clients_df[i].coord_source \in {"original", "event_1", "event_2", "none"}
              /\ Unrepairable(clients_df[i]) =>
                    /\ clients_df[i].coord_source = "none"
                    /\ ~clients_df[i].in_poly_final
                    /\ isna(clients_df[i].lon_final) /\ isna(clients_df[i].lat_final)

\* the first client has missing coordinates and one event that is not a number,
\* and ends as none; the second client was repaired from its first event
C21_Witness ==
    /\ repair_pc = "done" /\ Len(clients_df) = 2
    /\ isna(clients_df[1].lat)
    /\ \E k \in DOMAIN examined_events(clients_df[1]) :
          float_raises(examined_events(clients_df[1])[k].lon)
    /\ clients_df[1].coord_source = "none"
    /\ clients_df[2].coord_source = "event_1"

\* ------------------------------------------------------------------------
\* Artifact persistence: persist_weekly_outputs and the solution dump of
\* VRPSystem.solve_open_vrp, with cancellation at any step
\* ------------------------------------------------------------------------

MaxRuns == 2
MaxPersistDays == 1
\* number of write calls json.dump / to_csv make for one document
ChunksPerFile == 2

\* the jobs_df values a caller may hand in
JobsInputs == 1..MaxRuns

\* paths under <root>/semana_<TAG>/ and <root>/latest.json, each with the
\* index of its day (0 for the files of the week)
summary_path == <<"summary.json", 0>>
summary_tmp == <<"summary.json.tmp", 0>>
latest_path == <<"latest.json", 0>>
jobs_path == <<"insumos/jobs.csv", 0>>
solution_path == <<"solutions/day.json", 0>>
shortlist_path(d) == <<"seleccion/shortlist.csv", d>>

ShortlistFiles == {shortlist_path(d) : d \in 1..MaxPersistDays}
FileNames == {summary_path, summary_tmp, latest_path, jobs_path, solution_path}
                \cup ShortlistFiles
\* the artifact files of a run
ArtifactFiles == {summary_path, latest_path, solution_path} \cup ShortlistFiles

AbsentFile == [exists |-> FALSE, data |-> <<>>]
EmptyFile == [exists |-> TRUE, data |-> <<>>]

\* the complete document of run v, as the chunks written for it
FullDoc(v) == [k \in 1..ChunksPerFile |-> <<v, k>>]

IsComplete(f) == f.exists /\ \E v \in 1..MaxRuns : f.data = FullDoc(v)
HalfWritten(f) == f.exists /\ ~IsComplete(f)

\* the summary written in place
summary_write_target_Direct == summary_path

\* the path the summary document is written to before it is renamed
summary_write_target == summary_tmp

\* the file the running operation is writing at its position
Target ==
    CASE persist_pc = "insumos" -> jobs_path
      [] persist_pc = "day" -> shortlist_path(day)
      [] persist_pc = "summary" -> summary_write_target
      [] persist_pc = "latest" -> latest_path
      [] persist_pc = "solution" -> solution_path
      [] OTHER -> jobs_path

\* what the document being written is made from: insumos/jobs.csv is
\* jobs_df.to_csv of the call's jobs_df, every other document is of the run
doc_version == IF persist_pc = "insumos" THEN jobs_in ELSE run

Writing == persist_pc \in {"insumos", "day", "summary", "latest", "solution"}

\* the position after the file of a position is closed
AfterClose ==
    CASE persist_pc = "insumos" -> IF persist_days >= 1 THEN "day" ELSE "summary"
      [] persist_pc = "day" -> IF day < persist_days THEN "day" ELSE "summary"
      [] persist_pc = "summary" -> "replace"
      [] persist_pc = "latest" -> "done"
      [] persist_pc = "solution" -> "done"
      [] OTHER -> persist_pc

PersistInit ==
    /\ fs = [f \in FileNames |-> AbsentFile]
    /\ run = 0
    /\ persist_pc = "idle"
    /\ fopen = FALSE
    /\ day = 0
    /\ persist_days = 0
    /\ clean = FALSE
    /\ overwrite = FALSE
    /\ jobs_in = 0
    /\ fs_before = fs
    /\ IdleExcept("persist")

\* persist_weekly_outputs up to the insumos: the directories are made and,
\* with overwrite and clean_subdirs, seleccion/ is removed and recreated
PersistStart ==
    /\ persist_pc \in {"idle", "done", "cancelled"}
    /\ run < MaxRuns
    /\ run' = run + 1
    /\ \E n \in 0..MaxPersistDays, ow \in BOOLEAN, cs \in BOOLEAN, j \in JobsInputs :
          /\ persist_days' = n
          /\ overwrite' = ow
          /\ clean' = (ow /\ cs)
          /\ jobs_in' = j
          /\ fs' = IF ow /\ cs THEN [f \in FileNames |->
                                 IF f \in ShortlistFiles THEN AbsentFile ELSE fs[f]]
                   ELSE fs
    /\ persist_pc' = "insumos"
    /\ day' = 1
    /\ fopen' = FALSE
    /\ fs_before' = fs
    /\ UNCHANGED notPersistVars

\* the export of the solution JSON in VRPSystem.solve_open_vrp
SolveExportStart ==
    /\ persist_pc \in {"idle", "done", "cancelled"}
    /\ run < MaxRuns
    /\ run' = run + 1
    /\ persist_pc' = "solution"
    /\ fopen' = FALSE
    /\ UNCHANGED <<fs, day, persist_days, clean, overwrite, jobs_in, fs_before, notPersistVars>>

\* open(path, 'w'): the file exists and is empty
OpenFile ==
    /\ Writing /\ ~fopen
    /\ fs' = [fs EXCEPT ![Target] = EmptyFile]
    /\ fopen' = TRUE
    /\ UNCHANGED <<run, persist_pc, day, persist_days, clean, overwrite, jobs_in, fs_before, notPersistVars>>

\* one write of the document's next chunk
WriteChunk ==
    /\ Writing /\ fopen
    /\ Len(fs[Target].data) < ChunksPerFile
    /\ fs' = [fs EXCEPT ![Target].data = Append(@, <<doc_version, Len(@) + 1>>)]
    /\ UNCHANGED <<run, persist_pc, fopen, day, persist_days, clean, overwrite, jobs_in, fs_before, notPersistVars>>

\* the file is closed after its last chunk
CloseFile ==
    /\ Writing /\ fopen
    /\ Len(fs[Target].data) = ChunksPerFile
    /\ fopen' = FALSE
    /\ persist_pc' = AfterClose
    /\ day' = IF persist_pc = "day" /\ day < persist_days THEN day + 1 ELSE day
    /\ UNCHANGED <<fs, run, persist_days, clean, overwrite, jobs_in, fs_before, notPersistVars>>

\* os.replace(summary_tmp, summary_path)
ReplaceSummary ==
    /\ persist_pc = "replace"
    /\ fs' = IF summary_write_target = summary_path THEN fs
             ELSE [fs EXCEPT ![summary_path] = fs[summary_write_target],
                             ![summary_write_target] = AbsentFile]
    /\ persist_pc' = "latest"
    /\ UNCHANGED <<run, fopen, day, persist_days, clean, overwrite, jobs_in, fs_before, notPersistVars>>

\* the run is cancelled or interrupted where it stands; the files stay as they are
Cancel ==
    /\ persist_pc \in {"insumos", "day", "summary", "replace", "latest", "solution"}
    /\ persist_pc' = "cancelled"
    /\ fopen' = FALSE
    /\ UNCHANGED <<fs, run, day, persist_days, clean, overwrite, jobs_in, fs_before, notPersistVars>>

PersistNext ==
    \/ PersistStart \/ SolveExportStart
    \/ OpenFile \/ WriteChunk \/ CloseFile
    \/ ReplaceSummary \/ Cancel

SpecPersist == PersistInit /\ [][PersistNext]_vars

\* C4: at every instant, interrupted or not, summary.json is absent or is the
\* complete document of this run or of an earlier one; it is never half-written.
C4_SummaryNeverPartial ==
    persist_pc # "off" =>
        \/ ~fs[summary_path].exists
        \/ \E v \in 1..run : fs[summary_path].data = FullDoc(v)

\* a run was interrupted with summary.json.tmp half-written while summary.json
\* still held the complete document of the previous run
C4_Witness ==
    /\ persist_pc = "cancelled"
    /\ run = 2
    /\ HalfWritten(fs[summary_tmp])
    /\ fs[summary_path].data = FullDoc(1)

\* C5: after a cancellation every artifact file (per-day shortlist, summary,
\* latest pointer, solution dump) is absent or complete.
C5_NoHalfWrittenArtifact ==
    persist_pc = "cancelled" => \A f \in ArtifactFiles : ~HalfWritten(fs[f])

\* the running persist_weekly_outputs has written and closed its insumos
InsumosWritten == persist_pc \in {"day", "summary", "replace", "latest"}

\* C14: persisting a week with overwrite enabled purges only seleccion/; the
\* input materials already stored for the week (insumos/) and the rest of the
\* week directory are as they were before the call.
C14_OverwriteKeepsStoredInputs ==
    (overwrite /\ InsumosWritten) =>
        /\ fs_before[jobs_path].exists => fs[jobs_path] = fs_before[jobs_path]
        /\ fs[solution_path] = fs_before[solution_path]

\* ------------------------------------------------------------------------
\* Matrix service: compute_matrix with its pickle cache and haversine fallback
\* ------------------------------------------------------------------------

MaxCalls == 2
MaxTicks == 3
\* hours the clock advances in one tick
TickHours == 12
\* clear_old_cache(cache_dir, max_age_hours=24)
max_age_hours == 24

\* Coordinates are integers in units of 1e-7 degree; a point is <<lat, lon>>.
\* The points used lie on one parallel.
PtA == <<10, 10>>
PtA2 == <<10, 13>>
PtB == <<10, 17>>

\* the point lists the service is called with
MatrixRequests == {<<>>, <<PtA>>, <<PtA, PtB>>, <<PtA2, PtB>>, <<PtB, PtA>>}

\* round(x, 6) of a coordinate in units of 1e-7 degree, in units of 1e-6 degree
\* (none of the coordinates used is a tie)
round6(x) == IF x % 10 < 5 THEN x \div 10 ELSE x \div 10 + 1

\* a list of rounded coordinates without its order
coords_for_hash_Unordered(points) ==
    {<<round6(points[i][1]), round6(points[i][2])>> : i \in DOMAIN points}

\* coords_for_hash = [(round(p['lat'], 6), round(p['lon'], 6)) for p in points]
coords_for_hash(points) ==
    [i \in DOMAIN points |-> <<round6(points[i][1]), round6(points[i][2])>>]

\* obj_hash: SHA1 of the JSON text of the object; distinct objects are taken to
\* have distinct digests, so the digest is modelled by the object itself
obj_hash(o) == <<"sha1", o>>

\* cache_key of compute_matrix
cache_key(points) == obj_hash(coords_for_hash(points))

Abs(x) == IF x >= 0 THEN x ELSE -x

\* _haversine_distance_fallback between two points of the parallel, in units
\* of the length of 1e-7 degree of longitude on it
haversine_distance_fallback(p, q) == Abs(p[2] - q[2])

\* _haversine_time_fallback at 30 km/h: distance / 1000 / 30 * 3600 seconds,
\* here in hundredths of the distance unit per second
haversine_time_fallback(p, q) == haversine_distance_fallback(p, q) * 12

\* a matrix cell carries the value and where it came from
HavCell(v) == <<"hav", v>>
OsrmCell(v) == <<"osrm", v>>
NullCell == <<"null", 0>>

Square(n) == (1..n) \X (1..n)

\* the matrices _compute_haversine_fallback builds
hav_distance_matrix(points) ==
    [i \in DOMAIN points |-> [j \in DOMAIN points |->
        IF i = j THEN HavCell(0) ELSE HavCell(haversine_distance_fallback(points[i], points[j]))]]

hav_time_matrix(points) ==
    [i \in DOMAIN points |-> [j \in DOMAIN points |->
        IF i = j THEN HavCell(0) ELSE HavCell(haversine_time_fallback(points[i], points[j]))]]

\* the 'durations' and 'distances' of a backend answer with code Ok: road values,
\* null in the cells of the mask
osrm_distances(points, mask) ==
    [i \in DOMAIN points |-> [j \in DOMAIN points |->
        IF <<i, j>> \in mask THEN NullCell
        ELSE OsrmCell(2 * haversine_distance_fallback(points[i], points[j]))]]

osrm_durations(points, mask) ==
    [i \in DOMAIN points |-> [j \in DOMAIN points |->
        IF <<i, j>> \in mask THEN NullCell
        ELSE OsrmCell(9 * haversine_distance_fallback(points[i], points[j]))]]

\* the null masks of a backend answer: no null cell, or the cell from the
\* first point to the second
NullMasks(n) == {{}, {<<1, 2>>} \cap Square(n)}

\* the durations handed on as the backend gave them
fill_null_times_Unfilled(m, points) == m

\* _call_osrm_table, the loop that replaces null cells
fill_null_times(m, points) ==
    [i \in DOMAIN points |-> [j \in DOMAIN points |->
        IF m[i][j] = NullCell THEN HavCell(haversine_time_fallback(points[i], points[j]))
        ELSE m[i][j]]]

fill_null_distances(m, points) ==
    [i \in DOMAIN points |-> [j \in DOMAIN points |->
        IF m[i][j] = NullCell THEN HavCell(haversine_distance_fallback(points[i], points[j]))
        ELSE m[i][j]]]

\* meta of a backend result
osrm_meta(key, points, t) ==
    [matrix_id |-> key, n |-> Len(points), computed_at |-> t, fallback_method |-> "none"]

\* meta of a fallback result
fallback_meta(key, points, t) ==
    [matrix_id |-> key, n |-> Len(points), computed_at |-> t, fallback_method |-> "haversine"]

\* cache_data: what is pickled
cache_data_Swapped(meta, time_matrix, distance_matrix) ==
    [meta |-> meta, time_matrix |-> distance_matrix, distance_matrix |-> distance_matrix]

cache_data(meta, time_matrix, distance_matrix) ==
    [meta |-> meta, time_matrix |-> time_matrix, distance_matrix |-> distance_matrix]

\* the dict compute_matrix returns
matrix_result(time_matrix, distance_matrix, meta, fallback_used) ==
    [success |-> TRUE, seconds_matrix |-> time_matrix, meters_matrix |-> distance_matrix,
     meta |-> meta, fallback_used |-> fallback_used]

\* the result compute_matrix builds from a cache entry
result_from_cache(cached) ==
    matrix_result(cached.time_matrix, cached.distance_matrix, cached.meta, FALSE)

\* a result with success False
compute_haversine_fallback_Failed(points, key, t) == [success |-> FALSE, error |-> "backend"]

\* _compute_haversine_fallback: the result returned
compute_haversine_fallback(points, key, t) ==
    matrix_result(hav_time_matrix(points), hav_distance_matrix(points),
                  fallback_meta(key, points, t), TRUE)

\* how a backend call can fail
BackendFailures == {"connection", "timeout", "non200", "malformed", "code_not_ok"}

\* save_cache: the entry of the key is replaced (when the write succeeds)
save_cache(cache, key, payload, t, ok) ==
    IF ok THEN [k \in DOMAIN cache \cup {key} |->
                  IF k = key THEN [payload |-> payload, mtime |-> t] ELSE cache[k]]
    ELSE cache

\* load_cache: the entry's payload; TRUE in hit when there is one
cache_has(cache, key) == key \in DOMAIN cache

MatrixInit ==
    /\ mcache = <<>>
    /\ now = 0
    /\ calls = 0
    /\ last_req = <<>> /\ last_res = NoResult /\ last_hit = FALSE /\ last_age = 0
    /\ last_backend = "not_called"
    /\ prev_req = <<>> /\ prev_res = NoResult
    /\ IdleExcept("matrix")

Called(points) ==
    /\ calls < MaxCalls
    /\ calls' = calls + 1
    /\ last_req' = points
    /\ prev_req' = last_req
    /\ prev_res' = last_res

\* compute_matrix([]) raises ValueError
ComputeEmpty ==
    /\ Called(<<>>)
    /\ last_res' = [success |-> FALSE, error |-> "ValueError"]
    /\ last_hit' = FALSE /\ last_age' = 0
    /\ last_backend' = "not_called"
    /\ UNCHANGED <<mcache, now, notMatrixVars>>

\* compute_matrix, the cache has the key: the entry is returned
ComputeCacheHit ==
    \E points \in MatrixRequests \ {<<>>} :
        /\ Called(points)
        /\ cache_has(mcache, cache_key(points))
        /\ last_res' = result_from_cache(mcache[cache_key(points)].payload)
        /\ last_hit' = TRUE
        /\ last_age' = now - mcache[cache_key(points)].mtime
        /\ last_backend' = "not_called"
        /\ UNCHANGED <<mcache, now, notMatrixVars>>

\* compute_matrix, no entry, the backend answers with code Ok
ComputeBackendOk ==
    \E points \in MatrixRequests \ {<<>>}, saved \in BOOLEAN :
      \E mask \in NullMasks(Len(points)) :
        LET key == cache_key(points)
            tm == fill_null_times(osrm_durations(points, mask), points)
            dm == fill_null_distances(osrm_distances(points, mask), points)
            meta == osrm_meta(key, points, now)
        IN /\ Called(points)
           /\ ~cache_has(mcache, key)
           /\ mcache' = save_cache(mcache, key, cache_data(meta, tm, dm), now, saved)
           /\ last_res' = matrix_result(tm, dm, meta, FALSE)
           /\ last_hit' = FALSE /\ last_age' = 0
           /\ last_backend' = "ok"
           /\ UNCHANGED <<now, notMatrixVars>>

\* compute_matrix, no entry, the backend call fails: the except branches
ComputeBackendFail ==
    \E points \in MatrixRequests \ {<<>>}, saved \in BOOLEAN, failure \in BackendFailures :
        LET key == cache_key(points)
            res == compute_haversine_fallback(points, key, now)
        IN /\ Called(points)
           /\ ~cache_has(mcache, key)
           /\ mcache' = IF res.success
                        THEN save_cache(mcache, key,
                                 cache_data(res.meta, res.seconds_matrix, res.meters_matrix),
                                 now, saved)
                        ELSE mcache
           /\ last_res' = res
           /\ last_hit' = FALSE /\ last_age' = 0
           /\ last_backend' = failure
           /\ UNCHANGED <<now, notMatrixVars>>

\* time passes
Tick ==
    /\ now < MaxTicks
    /\ now' = now + 1
    /\ UNCHANGED <<mcache, calls, last_req, last_res, last_hit, last_age, last_backend,
                   prev_req, prev_res, notMatrixVars>>

\* clear_old_cache(cache_dir): the files older than max_age_hours are removed
ClearOldCache ==
    /\ mcache # <<>>
    /\ mcache' = [k \in {k \in DOMAIN mcache :
                          ~(mcache[k].mtime * TickHours < now * TickHours - max_age_hours)}
                    |-> mcache[k]]
    /\ UNCHANGED <<now, calls, last_req, last_res, last_hit, last_age, last_backend,
                   prev_req, prev_res, notMatrixVars>>

MatrixNext ==
    \/ ComputeEmpty \/ ComputeCacheHit \/ ComputeBackendOk \/ ComputeBackendFail
    \/ Tick \/ ClearOldCache

SpecMatrix == MatrixInit /\ [][MatrixNext]_vars

C7_CacheHitSamePayload ==
    (last_hit /\ calls >= 2 /\ prev_req = last_req) =>
        /\ prev_res.success
        /\ last_res.seconds_matrix = prev_res.seconds_matrix
        /\ last_res.meters_matrix = prev_res.meters_matrix
        /\ last_res.meta = prev_res.meta

\* the second of two calls with the same two points, made later, was a cache hit
\* on the fallback result of the first
C7_Witness ==
    /\ last_hit /\ calls >= 2 /\ prev_req = last_req /\ Len(last_req) = 2
    /\ prev_res.fallback_used
    /\ now > prev_res.meta.computed_at

\* C9: a lookup never returns an entry older than the TTL of 24 hours: the
\* entry a cache hit returns was written at most max_age_hours before.
C9_NoStaleHit ==
    last_hit => last_age * TickHours <= max_age_hours

\* a matrix whose cells are all numbers that are not negative, zero on the diagonal
WellFormedMatrix(m) ==
    \A i, j \in DOMAIN m :
        /\ m[i][j] # NullCell /\ m[i][j][1] \in {"hav", "osrm"}
        /\ m[i][j][2] >= 0
        /\ i = j => m[i][j][2] = 0

C24_EmptyRequestSucceeds ==
    (calls > 0 /\ last_req = <<>>) =>
        /\ last_res.success
        /\ last_res.seconds_matrix = <<>> /\ last_res.meters_matrix = <<>>

\* ------------------------------------------------------------------------
\* Cache keys: compute_matrix, get_cost_matrix, VRPCache.get_matrix_cache_key
\* ------------------------------------------------------------------------

MaxKeyPoints == 2

KeyPts == {PtA, PtA2, PtB}
Profiles == {"driving", "walking"}
Metrics == {"duration", "distance"}

\* a request: the ordered points, the profile asked for, the metric asked for
KeyRequests ==
    [points : SeqsUpTo(KeyPts, MaxKeyPoints), profile : Profiles, metric : Metrics]

\* the profile of the table call of compute_matrix: always /table/v1/car/
osrm_profile == "car"

\* get_cost_matrix: md5 of the JSON text of the coordinates as given, first 12
\* hex digits, and the metric in the file name
coords_key(coords) == <<"md5", coords>>

cost_matrix_cache_file(coords, metric) == <<coords_key(coords), metric>>

\* VRPCache.get_matrix_cache_key: hash of the rounded records and the profile
get_matrix_cache_key(locations, profile) ==
    <<"matrix", [coordinates |-> coords_for_hash(locations), profile |-> profile]>>

\* the three keys of a request
keys_of(r) ==
    [compute_matrix |-> cache_key(r.points),
     get_cost_matrix |-> cost_matrix_cache_file(r.points, r.metric),
     vrp_cache |-> get_matrix_cache_key(r.points, r.profile)]

KeyInit ==
    /\ key_a \in KeyRequests
    /\ key_b \in KeyRequests
    /\ keys = <<>>
    /\ key_pc = "ready"
    /\ IdleExcept("key")

ComputeKeys ==
    /\ key_pc = "ready"
    /\ keys' = <<keys_of(key_a), keys_of(key_b)>>
    /\ key_pc' = "done"
    /\ UNCHANGED <<key_a, key_b, notKeyVars>>

KeyNext == ComputeKeys

SpecKey == KeyInit /\ [][KeyNext]_vars

\* the two point lists have the same coordinates rounded to 6 decimals, in the
\* same order
SameRounded(p, q) ==
    /\ Len(p) = Len(q)
    /\ \A i \in DOMAIN p :
         round6(p[i][1]) = round6(q[i][1]) /\ round6(p[i][2]) = round6(q[i][2])

NumWriters == 2
\* blocks of one pickled payload, one write() each
CacheBlocks == 2
MaxLoads == 1

Writers == 1..NumWriters

\* the payload of writer w, pickled: its blocks in order; the payloads of one
\* key have the same layout, the last block ends with the STOP opcode
Pickled(w) == [i \in 1..CacheBlocks |-> <<w, i>>]

\* a hole left by a write past the end of the file
ZeroBlock == <<0, 0>>

\* write(block) at offset off of a file with the given data
write_at(data, off, block) ==
    [i \in 1..Min2(Len(data), off + 1) \cup 1..(off + 1) |->
        IF i = off + 1 THEN block
        ELSE IF i <= Len(data) THEN data[i]
        ELSE ZeroBlock] 

\* load_cache returns None
None == <<>>

\* load_cache: pickle.load of the file; any exception gives None
load_cache(f) ==
    IF ~f.exists THEN None
    ELSE IF /\ Len(f.data) >= CacheBlocks
            /\ \A i \in 1..CacheBlocks : f.data[i] # ZeroBlock /\ f.data[i][2] = i
         THEN [i \in 1..CacheBlocks |-> f.data[i]]
         ELSE None

CacheInit ==
    /\ cfile = [exists |-> FALSE, data |-> <<>>]
    /\ w_pc = [w \in Writers |-> "idle"]
    /\ w_off = [w \in Writers |-> 0]
    /\ loaded = None
    /\ loads = 0
    /\ IdleExcept("cache")

\* save_cache: open(cache_path, "wb") creates or truncates the file
SaveOpen(w) ==
    /\ w_pc[w] = "idle"
    /\ cfile' = [exists |-> TRUE, data |-> <<>>]
    /\ w_pc' = [w_pc EXCEPT ![w] = "writing"]
    /\ w_off' = [w_off EXCEPT ![w] = 0]
    /\ UNCHANGED <<loaded, loads, notCacheVars>>

\* save_cache: pickle.dump writes the next block at the writer's offset
SaveWrite(w) ==
    /\ w_pc[w] = "writing"
    /\ w_off[w] < CacheBlocks
    /\ cfile' = [cfile EXCEPT !.data = write_at(cfile.data, w_off[w], Pickled(w)[w_off[w] + 1])]
    /\ w_off' = [w_off EXCEPT ![w] = w_off[w] + 1]
    /\ UNCHANGED <<w_pc, loaded, loads, notCacheVars>>

\* save_cache: the with block closes the file
SaveClose(w) ==
    /\ w_pc[w] = "writing"
    /\ w_off[w] = CacheBlocks
    /\ w_pc' = [w_pc EXCEPT ![w] = "done"]
    /\ UNCHANGED <<cfile, w_off, loaded, loads, notCacheVars>>

\* load_cache of the same path
LoadCache ==
    /\ loads < MaxLoads
    /\ loaded' = load_cache(cfile)
    /\ loads' = loads + 1
    /\ UNCHANGED <<cfile, w_pc, w_off, notCacheVars>>

CacheNext ==
    \/ \E w \in Writers : SaveOpen(w)
    \/ \E w \in Writers : SaveWrite(w)
    \/ \E w \in Writers : SaveClose(w)
    \/ LoadCache

SpecCache == CacheInit /\ [][CacheNext]_vars

\* C10: a reader running with writers of the same key never gets a partially
\* written entry (what load_cache returns is the whole payload of one writer),
\* and when the writers have finished the file is the complete payload of one
\* of them.
C10_EntriesWhole ==
    /\ loaded # None => \E w \in Writers : loaded = Pickled(w)
    /\ (\A w \in Writers : w_pc[w] = "done") => \E w \in Writers : cfile.data = Pickled(w)

\* ------------------------------------------------------------------------
\* Route geometry: route_polyline and batch_route_polylines
\* ------------------------------------------------------------------------

MaxRouteStops == 2
MaxRouteCalls == 2

\* the stops of the scenario, id_contacto -> point
RouteStopIds == {1, 2, 3}
route_stops == [id \in RouteStopIds |-> CASE id = 1 -> PtA [] id = 2 -> PtB [] OTHER -> PtA2]

RouteSequences == SeqsUpTo(RouteStopIds, MaxRouteStops)

\* how the backend answers /route: a route, or one of the failures
RouteBackendAnswers == {"ok", "http_503", "unparseable", "code_not_ok"}

\* positional parameters of load_cache(path) and save_cache(path, obj)
load_cache_params == 1
save_cache_params == 2
\* positional arguments of load_cache("routes", cache_key) and
\* save_cache("routes", cache_key, result) in route_polyline
route_load_cache_args == 2
route_save_cache_args == 3

\* what a call returns: a geometry, or the exception it raised
Geometry(coordinates, distance_m, duration_s, geometry_valid, legs, error) ==
    [kind |-> "geometry", coordinates |-> coordinates, distance_m |-> distance_m,
     duration_s |-> duration_s, geometry_valid |-> geometry_valid, legs |-> legs,
     error |-> error]

Raised(exception) ==
    [kind |-> "raised", coordinates |-> <<>>, distance_m |-> 0, duration_s |-> 0,
     geometry_valid |-> FALSE, legs |-> <<>>, error |-> exception]

NoGeometry == Raised("none")

\* coordinates of the sequence (_find_stop_by_id for each id)
route_coordinates(sequence) == [i \in DOMAIN sequence |-> route_stops[sequence[i]]]

\* _haversine_distance between two points of the parallel
route_haversine_distance(p, q) == Abs(p[2] - q[2])

\* leg_distance / 1000 * 3600 / 50 seconds, in thousandths of a second per
\* unit of distance
leg_duration_50kmh(leg_distance) == leg_distance * 72

\* _create_straight_line_route
straight_legs(coordinates) ==
    [i \in 1..(Len(coordinates) - 1) |->
        [distance_m |-> route_haversine_distance(coordinates[i], coordinates[i + 1]),
         duration_s |-> leg_duration_50kmh(
                            route_haversine_distance(coordinates[i], coordinates[i + 1]))]]

create_straight_line_route(coordinates) ==
    IF Len(coordinates) <= 1
    THEN Geometry(coordinates, 0, 0, FALSE, <<>>, "")
    ELSE LET legs == straight_legs(coordinates)
         IN Geometry(coordinates,
                     SumSeq([i \in DOMAIN legs |-> legs[i].distance_m]),
                     SumSeq([i \in DOMAIN legs |-> legs[i].duration_s]),
                     FALSE, legs, "")

\* _process_osrm_route_response of a route answered by the backend: road values
process_osrm_route_response(coordinates) ==
    LET legs == [i \in 1..(Len(coordinates) - 1) |->
                   [distance_m |-> 2 * route_haversine_distance(coordinates[i], coordinates[i + 1]),
                    duration_s |-> 90 * route_haversine_distance(coordinates[i], coordinates[i + 1])]]
    IN Geometry(coordinates,
                SumSeq([i \in DOMAIN legs |-> legs[i].distance_m]),
                SumSeq([i \in DOMAIN legs |-> legs[i].duration_s]),
                TRUE, legs, "")

\* _build_route_cache_key: hash of the sequence, its rounded coordinates and the url
build_route_cache_key(sequence) ==
    obj_hash([sequence |-> sequence, coordinates |-> coords_for_hash(route_coordinates(sequence))])

\* route_polyline: the value returned or the exception raised, the cache after
\* the call and the number of backend requests made
route_polyline(sequence, cache, answer) ==
    IF sequence = <<>>
    THEN [res |-> Raised("ValueError"), cache |-> cache, requests |-> 0]
    ELSE IF Len(sequence) = 1
    THEN [res |-> Geometry(route_coordinates(sequence), 0, 0, FALSE, <<>>, ""),
          cache |-> cache, requests |-> 0]
    ELSE IF route_load_cache_args # load_cache_params
    THEN \* load_cache("routes", cache_key), outside the try block
         [res |-> Raised("TypeError"), cache |-> cache, requests |-> 0]
    ELSE IF build_route_cache_key(sequence) \in DOMAIN cache
    THEN [res |-> cache[build_route_cache_key(sequence)], cache |-> cache, requests |-> 0]
    ELSE LET key == build_route_cache_key(sequence)
             coordinates == route_coordinates(sequence)
             store(result) == [k \in DOMAIN cache \cup {key} |->
                                 IF k = key THEN result ELSE cache[k]]
         IN IF answer = "ok" /\ route_save_cache_args = save_cache_params
            THEN [res |-> process_osrm_route_response(coordinates),
                  cache |-> store(process_osrm_route_response(coordinates)), requests |-> 1]
            ELSE IF route_save_cache_args = save_cache_params
            THEN [res |-> create_straight_line_route(coordinates),
                  cache |-> store(create_straight_line_route(coordinates)), requests |-> 1]
            ELSE \* save_cache("routes", cache_key, ...) in the except branch
                 [res |-> Raised("TypeError"), cache |-> cache, requests |-> 1]

\* batch_route_polylines for one route: the geometry attached to it
batch_geometry(sequence, cache, answer) ==
    IF sequence = <<>>
    THEN Geometry(<<>>, 0, 0, FALSE, <<>>, "")
    ELSE LET r == route_polyline(sequence, cache, answer).res
         IN IF r.kind = "raised"
            THEN Geometry(<<>>, 0, 0, FALSE, <<>>, r.error)
            ELSE r

RouteInit ==
    /\ route_seq = <<>>
    /\ route_backend \in RouteBackendAnswers
    /\ route_res = NoGeometry
    /\ route_cache = <<>>
    /\ route_backend_calls = 0
    /\ route_calls = 0
    /\ enriched = NoGeometry
    /\ IdleExcept("route")

\* the backend changes how it answers
RouteBackendChanges ==
    /\ \E a \in RouteBackendAnswers \ {route_backend} : route_backend' = a
    /\ UNCHANGED <<route_seq, route_res, route_cache, route_backend_calls, route_calls,
                   enriched, notRouteVars>>

\* route_polyline(sequence, stops, osrm_url)
RoutePolyline ==
    \E sequence \in RouteSequences :
        LET r == route_polyline(sequence, route_cache, route_backend)
        IN /\ route_calls < MaxRouteCalls
           /\ route_calls' = route_calls + 1
           /\ route_seq' = sequence
           /\ route_res' = r.res
           /\ route_cache' = r.cache
           /\ route_backend_calls' = route_backend_calls + r.requests
           /\ enriched' = NoGeometry
           /\ UNCHANGED <<route_backend, notRouteVars>>

\* batch_route_polylines of one route
BatchRoutePolylines ==
    \E sequence \in RouteSequences :
        LET r == route_polyline(sequence, route_cache, route_backend)
        IN /\ route_calls < MaxRouteCalls
           /\ route_calls' = route_calls + 1
           /\ route_seq' = sequence
           /\ route_res' = IF sequence = <<>> THEN NoGeometry ELSE r.res
           /\ route_cache' = IF sequence = <<>> THEN route_cache ELSE r.cache
           /\ route_backend_calls' =
                 route_backend_calls + (IF sequence = <<>> THEN 0 ELSE r.requests)
           /\ enriched' = batch_geometry(sequence, route_cache, route_backend)
           /\ UNCHANGED <<route_backend, notRouteVars>>

RouteNext == RouteBackendChanges \/ RoutePolyline \/ BatchRoutePolylines

SpecRoute == RouteInit /\ [][RouteNext]_vars

\* the straight-line values of a sequence: the sum of the haversine distances
\* between consecutive stops, and that distance travelled at 50 km/h
StraightDistance(sequence) ==
    SumSeq([i \in 1..(Len(sequence) - 1) |->
              Abs(route_stops[sequence[i]][2] - route_stops[sequence[i + 1]][2])])

\* C11: a route of at least two stops whose backend request fails is given a
\* straight-line geometry: geometry_valid false, distance_m the sum of the
\* haversine distances between consecutive stops, duration_s that distance
\* at 50 km/h. It holds of the value route_polyline returns and of the geometry
\* batch_route_polylines attaches.
C11_StraightLineOnFailure ==
    (route_calls > 0 /\ Len(route_seq) >= 2 /\ route_backend # "ok") =>
        /\ route_res.kind = "geometry"
        /\ ~route_res.geometry_valid
        /\ route_res.distance_m = StraightDistance(route_seq)
        /\ route_res.duration_s = 72 * StraightDistance(route_seq)
        /\ enriched # NoGeometry =>
              /\ ~enriched.geometry_valid
              /\ enriched.distance_m = StraightDistance(route_seq)

\* C12: after a geometry request for at least two stops, answered by the
\* backend or by the fallback, the cache holds the returned result under the
\* key of the sequence, so the same request again is answered from the cache.
C12_RouteResultCached ==
    (route_calls > 0 /\ Len(route_seq) >= 2) =>
        /\ route_res.kind = "geometry"
        /\ build_route_cache_key(route_seq) \in DOMAIN route_cache
        /\ route_cache[build_route_cache_key(route_seq)] = route_res

\* ------------------------------------------------------------------------
\* Orchestrator: VRPSystem.solve_open_vrp and the artifacts it exports
\* ------------------------------------------------------------------------

MaxSolves == 2

\* a scenario: whether it has jobs, whether its meta carries week_tag and
\* day_index, and the calculate_detailed_paths option
OrchInputs == [has_jobs : BOOLEAN, tagged : BOOLEAN, detailed : BOOLEAN]

\* what the called parts do in one solve: compute_matrix returns or raises
\* (too many points, invalid coordinates); the solver returns routes, returns an
\* empty solution or raises; each export finishes, or raises before or after it
\* has created its file
OrchEnvs ==
    [matrix : {"ok", "raises"},
     solver : {"routes", "empty", "raises"},
     map_export : {"ok", "raises_before_write", "raises_after_write"},
     json_export : {"ok", "raises_before_write", "raises_after_write"}]

\* the exports run inside try blocks of their own without them
exports_guarded_Unguarded == FALSE

\* each export of solve_open_vrp runs inside a try block of its own
exports_guarded == TRUE

\* the structured error: success False, no routes, no exports
orch_error(message) ==
    [success |-> FALSE, error |-> message, has_routes |-> FALSE, exports |-> {}]

\* the files an export leaves behind
export_leaves(outcome, file) ==
    IF outcome \in {"ok", "raises_after_write"} THEN {file} ELSE {}

\* the exports an export adds to result["exports"]
export_records(outcome, file) == IF outcome = "ok" THEN {file} ELSE {}

\* VRPSystem.solve_open_vrp: the dict returned and the artifact files written
vrp_system_solve(in, env) ==
    IF ~in.has_jobs
    THEN [result |-> orch_error("No hay trabajos para resolver"), written |-> {}]
    ELSE IF env.matrix = "raises" \/ env.solver = "raises"
    THEN [result |-> orch_error("Error en VRP"), written |-> {}]
    ELSE LET has_routes == env.solver = "routes"
             \* detailed_routes is filled when paths are asked for and there are routes
             detailed == in.detailed /\ has_routes
             map_runs == in.tagged /\ detailed
             json_runs == in.tagged
             map_raises == map_runs /\ env.map_export # "ok"
             \* without the try blocks a raising map export ends the solve
             json_reached == json_runs /\ (exports_guarded \/ ~map_raises)
             json_raises == json_reached /\ env.json_export # "ok"
             written == (IF map_runs THEN export_leaves(env.map_export, "map_html") ELSE {})
                        \cup (IF json_reached
                              THEN export_leaves(env.json_export, "solution_json") ELSE {})
             exports == (IF map_runs THEN export_records(env.map_export, "map_html") ELSE {})
                        \cup (IF json_reached
                              THEN export_records(env.json_export, "solution_json") ELSE {})
         IN IF ~exports_guarded /\ (map_raises \/ json_raises)
            THEN [result |-> orch_error("Error en VRP"), written |-> written]
            ELSE [result |-> [success |-> TRUE, error |-> "", has_routes |-> has_routes,
                              exports |-> exports],
                  written |-> written]

OrchInit ==
    /\ orch_in = [has_jobs |-> FALSE, tagged |-> FALSE, detailed |-> FALSE]
    /\ orch_env = [matrix |-> "ok", solver |-> "empty", map_export |-> "ok",
                   json_export |-> "ok"]
    /\ orch_result = orch_error("none")
    /\ orch_written = {}
    /\ orch_files = {}
    /\ orch_calls = 0
    /\ IdleExcept("orch")

\* one call of VRPSystem.solve_open_vrp
SolveOpenVrpCall ==
    \E in \in OrchInputs, env \in OrchEnvs :
        LET r == vrp_system_solve(in, env)
        IN /\ orch_calls < MaxSolves
           /\ orch_calls' = orch_calls + 1
           /\ orch_in' = in
           /\ orch_env' = env
           /\ orch_result' = r.result
           /\ orch_written' = r.written
           /\ orch_files' = orch_files \cup r.written
           /\ UNCHANGED notOrchVars

OrchNext == SolveOpenVrpCall

SpecOrch == OrchInit /\ [][OrchNext]_vars

MaxRootOps == 4

\* strings are sequences of the pieces the code tells apart: a YYYYMMDD tag is
\* <<"20250106">>, the directory name of its week is <<"semana_", "20250106">>
DigitTags == {<<"20250106">>, <<"20250113">>}
\* a run of eight decimal digits that are not ASCII, and the newline character
UnicodeDigits == "u20250106"
Newline == "newline"
\* the runs of eight characters that \d{8} matches
DecimalDigitRuns == {t[1] : t \in DigitTags} \cup {UnicodeDigits}
\* what a user may type in the week tag field
UserTags == DigitTags \cup {<<>>, <<"TEST_FIX">>, <<"semana_", "20250106">>,
                            <<"20250106", Newline>>}
\* the names a directory under the run root may have
DirNames == {<<"semana_">> \o t : t \in DigitTags \cup {<<"20250106", Newline>>}}
                \cup DigitTags

\* WEEK_TAG_RE.match(user_tag) with WEEK_TAG_RE = ^\d{8}$: eight decimal digits
\* of any script, and $ also matches before one newline that ends the string
week_tag_re_match(user_tag) ==
    /\ Len(user_tag) \in {1, 2}
    /\ user_tag[1] \in DecimalDigitRuns
    /\ Len(user_tag) = 2 => user_tag[2] = Newline

\* canonicalize_week_tag(user_tag), monday being monday_tag_of_today()
canonicalize_week_tag(user_tag, monday) ==
    IF user_tag # <<>> /\ week_tag_re_match(user_tag)
    THEN <<user_tag, FALSE>>
    ELSE <<monday, TRUE>>

\* f"semana_{week_tag}"
week_dir_name(week_tag) == <<"semana_">> \o week_tag

\* week_tag.startswith('semana_')
startswith_semana(s) == Len(s) >= 1 /\ s[1] = "semana_"

\* the document written to latest.json
latest_document(week_tag) ==
    [week_tag |-> week_tag, week_path |-> <<"routing_runs/">> \o week_dir_name(week_tag)]

NoLatest == [week_tag |-> <<"None">>, week_path |-> <<>>]
Unresolved == <<"unresolved">>

dir_exists(dirs, name) == name \in DOMAIN dirs /\ dirs[name] > 0

\* list_weeks(base): the semana_ directories, the most recently modified first;
\* only its first element is used
list_weeks_first(dirs) ==
    LET weeks == {d \in DOMAIN dirs : dirs[d] > 0 /\ startswith_semana(d)}
    IN  IF weeks = {} THEN None
        ELSE CHOOSE w \in weeks : \A v \in weeks : dirs[v] <= dirs[w]

\* the resolution that looks at the modification times only
get_latest_week_MtimeOnly(doc, dirs) == list_weeks_first(dirs)

\* get_latest_week(base): the week named by latest.json when its directory
\* exists, else the most recently modified week
get_latest_week(doc, dirs) ==
    LET raw == doc.week_tag
        week_tag == IF raw # <<>> /\ ~startswith_semana(raw)
                    THEN week_dir_name(raw) ELSE raw
    IN  IF doc # NoLatest /\ week_tag # <<>> /\ dir_exists(dirs, week_tag)
        THEN week_tag
        ELSE list_weeks_first(dirs)

LatestInit ==
    /\ week_dirs = [d \in DirNames |-> 0]
    /\ latest_doc = NoLatest
    /\ mclock = 0
    /\ persisted_tag = <<>>
    /\ resolved = Unresolved
    /\ IdleExcept("latest")

\* the page normalises the typed tag and calls persist_weekly_outputs, which
\* makes <root>/semana_<tag>/, writes its files and then latest.json
PersistWeeklyOutputs ==
    /\ mclock < MaxRootOps
    /\ \E user_tag \in UserTags, monday \in DigitTags :
          LET week_tag == canonicalize_week_tag(user_tag, monday)[1]
          IN  /\ week_dirs' = [week_dirs EXCEPT ![week_dir_name(week_tag)] = mclock + 1]
              /\ latest_doc' = latest_document(week_tag)
              /\ persisted_tag' = week_tag
    /\ mclock' = mclock + 1
    /\ resolved' = Unresolved
    /\ UNCHANGED notLatestVars

\* the solution export of solve_open_vrp: makedirs of <root>/<week_tag>/solutions
\* creates the directory it names when it is missing and changes its mtime
ExportSolutionDir ==
    /\ mclock < MaxRootOps
    /\ \E name \in DirNames :
          week_dirs' = [week_dirs EXCEPT ![name] = mclock + 1]
    /\ mclock' = mclock + 1
    /\ UNCHANGED <<latest_doc, persisted_tag, resolved, notLatestVars>>

\* get_latest_week(base) on the run root
GetLatestWeek ==
    /\ resolved' = get_latest_week(latest_doc, week_dirs)
    /\ UNCHANGED <<week_dirs, latest_doc, mclock, persisted_tag, notLatestVars>>

LatestNext == PersistWeeklyOutputs \/ ExportSolutionDir \/ GetLatestWeek

SpecLatest == LatestInit /\ [][LatestNext]_vars

\* C20: after a week with tag T has been persisted under a run root, latest.json
\* names T, and resolving the latest week yields the directory semana_T that
\* was written.
C20_LatestResolvesPersistedWeek ==
    persisted_tag # <<>> =>
        /\ latest_doc.week_tag = persisted_tag
        /\ dir_exists(week_dirs, week_dir_name(persisted_tag))
        /\ resolved # Unresolved => resolved = week_dir_name(persisted_tag)

\* two weeks were persisted, a solution export then touched the older-named
\* other week, and the resolution still gave the week persisted last
C20_Witness ==
    /\ persisted_tag # <<>>
    /\ resolved = week_dir_name(persisted_tag)
    /\ \E d \in DirNames :
          /\ d # week_dir_name(persisted_tag) /\ startswith_semana(d)
          /\ week_dirs[d] > week_dirs[week_dir_name(persisted_tag)]

\* ------------------------------------------------------------------------
\* Open TSP: solve_open_tsp_dummy, the dummy-node reduction
\* ------------------------------------------------------------------------

MaxTspPoints == 3
MaxTspCalls == 1

TspIds == {1, 2}
\* the ids lists a caller may hand in; an id may repeat
TspIdLists == SeqsUpTo(TspIds, MaxTspPoints)

\* len(coords) and cost_matrix.shape[0] for each call, and ORTOOLS_AVAILABLE
TspEnvs ==
    [n_coords : 0..MaxTspPoints, shape : 1..MaxTspPoints, ortools : BOOLEAN]

\* _error_result(error_msg)
tsp_error_result(error_msg) ==
    [success |-> FALSE, order_ids |-> <<>>, order_idx |-> <<>>,
     start_id |-> None, end_id |-> None, error |-> error_msg]

\* nodes are numbered from 0; the dummy node is n_locs
dummy_idx(n_locs) == n_locs

\* the cycles a routing model with one vehicle starting and ending at the dummy
\* node can return: every other node exactly once
EngineCycles(n_locs) ==
    {<<dummy_idx(n_locs)>> \o p \o <<dummy_idx(n_locs)>> :
        p \in {q \in [1..n_locs -> 0..(n_locs - 1)] :
                  \A i, j \in 1..n_locs : i # j => q[i] # q[j]}}

\* [node for node in full_route if node != dummy_idx]
remove_dummy(route, n_locs) == FilterSeq(route, 0..(n_locs - 1))

\* [ids[idx] for idx in open_path]
map_to_ids(ids, path) == [i \in DOMAIN path |-> ids[path[i] + 1]]

\* the end of the path taken from its first stop
path_end_id_First(order_ids) == order_ids[1]

\* order_ids[-1]
path_end_id(order_ids) == order_ids[Len(order_ids)]

\* solve_open_tsp_dummy(ids, coords, cost_matrix), answer being what the engine
\* returned: None or a cycle through the dummy node
solve_open_tsp_dummy(ids, env, answer) ==
    IF ids = <<>> \/ env.n_coords = 0
    THEN tsp_error_result("Empty IDs or coordinates lists")
    ELSE IF Len(ids) # env.n_coords
    THEN tsp_error_result("Length mismatch")
    ELSE IF Len(ids) # env.shape
    THEN tsp_error_result("Matrix shape doesn't match")
    ELSE IF Len(ids) = 1
    THEN [success |-> TRUE, order_ids |-> <<ids[1]>>, order_idx |-> <<0>>,
          start_id |-> ids[1], end_id |-> ids[1], error |-> ""]
    ELSE IF ~env.ortools
    THEN tsp_error_result("OR-Tools not available")
    ELSE IF answer = None
    THEN tsp_error_result("OR-Tools could not find solution")
    ELSE LET path == remove_dummy(answer, Len(ids))
         IN  IF Len(path) # Len(ids)
             THEN tsp_error_result("Invalid path length")
             ELSE LET order_ids == map_to_ids(ids, path)
                  IN  [success |-> TRUE, order_ids |-> order_ids,
                       order_idx |-> path,
                       start_id |-> order_ids[1],
                       end_id |-> path_end_id(order_ids), error |-> ""]

\* whether the call gets as far as running the engine
reaches_engine(ids, env) ==
    /\ Len(ids) >= 2 /\ Len(ids) = env.n_coords /\ Len(ids) = env.shape /\ env.ortools

TspInit ==
    /\ tsp_ids = <<>>
    /\ tsp_env = [n_coords |-> 0, shape |-> 1, ortools |-> TRUE]
    /\ tsp_route = None
    /\ tsp_result = None
    /\ tsp_calls = 0
    /\ IdleExcept("tsp")

SolveOpenTspDummy ==
    /\ tsp_calls < MaxTspCalls
    /\ \E ids \in TspIdLists, env \in TspEnvs :
          \E answer \in IF reaches_engine(ids, env)
                        THEN {None} \cup EngineCycles(Len(ids)) ELSE {None} :
             /\ tsp_ids' = ids
             /\ tsp_env' = env
             /\ tsp_route' = answer
             /\ tsp_result' = solve_open_tsp_dummy(ids, env, answer)
    /\ tsp_calls' = tsp_calls + 1
    /\ UNCHANGED notTspVars

TspNext == SolveOpenTspDummy

SpecTsp == TspInit /\ [][TspNext]_vars

\* how many times x occurs in s
CountIn(s, x) == Cardinality({i \in DOMAIN s : s[i] = x})

\* C18: every successful TSP result over N >= 1 points has order_ids that is a
\* permutation of the input ids (each input exactly once), start_id equal to
\* the first and end_id equal to the last element of order_ids.
C18_OrderIsPermutation ==
    (tsp_calls > 0 /\ tsp_result.success) =>
        /\ Len(tsp_result.order_ids) = Len(tsp_ids)
        /\ \A x \in TspIds : CountIn(tsp_result.order_ids, x) = CountIn(tsp_ids, x)
        /\ tsp_result.start_id = tsp_result.order_ids[1]
        /\ tsp_result.end_id = tsp_result.order_ids[Len(tsp_result.order_ids)]

\* the engine returned a cycle that does not visit the points in input order,
\* and the call succeeded on three points with different first and last ids
C18_Witness ==
    /\ tsp_calls > 0 /\ tsp_result.success
    /\ Len(tsp_ids) = 3
    /\ tsp_result.order_idx # <<0, 1, 2>>
    /\ tsp_result.start_id # tsp_result.end_id

\* ------------------------------------------------------------------------
\* Week tag normalisation: canonicalize_week_tag on typed strings
\* ------------------------------------------------------------------------

\* pieces in a typed string
MaxTagPieces == 2
\* the last day the clock may show
MaxToday == 8

TagPieces == DecimalDigitRuns \cup {Newline, "semana_", "TEST_FIX"}
TypedTags == SeqsUpTo(TagPieces, MaxTagPieces)

\* strftime("%Y%m%d") of the Monday that is d days after 2025-01-06
monday_strftime(d) ==
    CASE d = 0 -> <<"20250106">>
      [] d = 7 -> <<"20250113">>
      [] d = 14 -> <<"20250120">>
      [] OTHER -> <<"20250127">>

\* monday_tag_of_today(): today - timedelta(days=today.weekday())
monday_tag_of_today(t) == monday_strftime(t - (t % 7))

TagInit ==
    /\ tag_in \in TypedTags
    /\ today \in 0..MaxToday
    /\ tag_out = <<>>
    /\ tag_pc = "ready"
    /\ IdleExcept("tag")

\* week_tag, normalized = canonicalize_week_tag(week_tag_input)
CanonicalizeWeekTag ==
    /\ tag_pc = "ready"
    /\ tag_out' = canonicalize_week_tag(tag_in, monday_tag_of_today(today))
    /\ tag_pc' = "done"
    /\ UNCHANGED <<tag_in, today, notTagVars>>

TagNext == CanonicalizeWeekTag

SpecTag == TagInit /\ [][TagNext]_vars

\* a string of exactly eight ASCII decimal digits
ConformsYYYYMMDD(t) == Len(t) = 1 /\ t[1] \in {d[1] : d \in DigitTags}

\* C23: normalisation returns the caller's tag unchanged when it conforms to the
\* 8-digit YYYYMMDD format and otherwise replaces it by the YYYYMMDD of the
\* Monday of the current week; the returned flag is true exactly when the tag
\* was replaced.
C23_NormalizedIffNonConforming ==
    tag_pc = "done" =>
        IF ConformsYYYYMMDD(tag_in)
        THEN tag_out = <<tag_in, FALSE>>
        ELSE tag_out = <<monday_tag_of_today(today), TRUE>>

\* ------------------------------------------------------------------------
\* Open TSP: the zero-extended matrix and the path read off the cycle
\* ------------------------------------------------------------------------

MaxCost == 2

\* n_locs for which the engine is run: at least two points
DummySizes == {2, 3}

\* cost_matrix: n_locs x n_locs, non-negative, rows and columns numbered from 0
\* (the diagonal, which no route uses, is 0)
CostMatrices(n_locs) ==
    {m \in [0..(n_locs - 1) -> [0..(n_locs - 1) -> 0..MaxCost]] :
        \A i \in 0..(n_locs - 1) : m[i][i] = 0}

\* the dummy row and column filled with ones
extended_matrix_Ones(cost, n_locs) ==
    [i \in 0..n_locs |-> [j \in 0..n_locs |->
        IF i < n_locs /\ j < n_locs THEN cost[i][j] ELSE 1]]

\* extended_matrix = np.zeros((n_locs + 1, n_locs + 1));
\* extended_matrix[:n_locs, :n_locs] = cost_matrix
extended_matrix(cost, n_locs) ==
    [i \in 0..n_locs |-> [j \in 0..n_locs |->
        IF i < n_locs /\ j < n_locs THEN cost[i][j] ELSE 0]]

\* the sum of m[from_node, to_node] over the consecutive nodes of a route
edges_cost(m, route) ==
    SumSeq([i \in 1..(Len(route) - 1) |-> m[route[i]][route[i + 1]]])

n_locs_of(cost) == Cardinality(DOMAIN cost)

DummyInit ==
    /\ cost_matrix \in UNION {CostMatrices(n) : n \in DummySizes}
    /\ full_route = None
    /\ open_path = None
    /\ total_cost = 0
    /\ IdleExcept("dummy")

\* the engine returns a cycle through the dummy node; the path and its cost are
\* read off it
ExtractOpenPath ==
    /\ full_route = None
    /\ \E cycle \in EngineCycles(n_locs_of(cost_matrix)) :
          /\ full_route' = cycle
          /\ open_path' = remove_dummy(cycle, n_locs_of(cost_matrix))
          /\ total_cost' = edges_cost(cost_matrix,
                                      remove_dummy(cycle, n_locs_of(cost_matrix)))
    /\ UNCHANGED cost_matrix
    /\ UNCHANGED notDummyVars

DummyNext == ExtractOpenPath

SpecDummy == DummyInit /\ [][DummyNext]_vars

\* the orders in which n real nodes can be visited, each exactly once
OpenPaths(n) ==
    {q \in [1..n -> 0..(n - 1)] : \A x \in 0..(n - 1) : CountIn(q, x) = 1}

MinOf(S) == CHOOSE x \in S : \A y \in S : x <= y

\* the cheapest cycle from the dummy node back to it over the extended matrix
MinCycleCost(cost) ==
    MinOf({edges_cost(extended_matrix(cost, n_locs_of(cost)), c) :
              c \in EngineCycles(n_locs_of(cost))})

\* the cheapest open path over the real nodes
MinOpenPathCost(cost) ==
    MinOf({edges_cost(cost, p) : p \in OpenPaths(n_locs_of(cost))})

\* C29: for a non-negative N x N cost matrix, N >= 2, the cheapest cycle from
\* the dummy node back to it over the zero-extended matrix costs what the
\* cheapest open path over the N real nodes costs; removing the dummy from a
\* cycle leaves a path that visits each real node exactly once and costs what
\* the cycle costs.
C29_DummyCycleIsOpenPath ==
    /\ MinCycleCost(cost_matrix) = MinOpenPathCost(cost_matrix)
    /\ full_route # None =>
          /\ open_path \in OpenPaths(n_locs_of(cost_matrix))
          /\ total_cost = edges_cost(extended_matrix(cost_matrix, n_locs_of(cost_matrix)),
                                     full_route)
          /\ (total_cost = MinOpenPathCost(cost_matrix)) <=>
                (edges_cost(extended_matrix(cost_matrix, n_locs_of(cost_matrix)),
                            full_route) = MinCycleCost(cost_matrix))

\* three points with costs that depend on the direction, and a cheapest cycle
\* whose path is not the input order and costs more than nothing
C29_Witness ==
    /\ full_route # None
    /\ n_locs_of(cost_matrix) = 3
    /\ cost_matrix[0][1] # cost_matrix[1][0]
    /\ open_path # <<0, 1, 2>>
    /\ total_cost = MinOpenPathCost(cost_matrix)
    /\ total_cost > 0
    /\ edges_cost(cost_matrix, <<0, 1, 2>>) > total_cost

\* ------------------------------------------------------------------------
\* Detailed route paths: PathCalculator.calculate_route_paths with parallel=True
\* ------------------------------------------------------------------------

MaxRoutes == 3

\* the rows of the locations frame a caller may hand in
LocationCounts == {2, 3}

\* the routes handed in: lists of location indices, in visit order
RouteIndexLists == {<<0>>, <<0, 1>>, <<1, 0>>, <<0, 2>>}

\* locations.iloc[idx] raises IndexError
iloc_raises(idx, n_locations) == idx >= n_locations

\* what a call comes back with: a value, or an exception
NoRoute == [kind |-> "None"]
IndexError == [kind |-> "IndexError"]
Returned(detailed_routes) == [raised |-> FALSE, routes |-> detailed_routes]
Propagated(exception) == [raised |-> TRUE, routes |-> <<>>]

\* calculate_single_route_path(route_indices, locations, route_id, vehicle_id):
\* None for fewer than two indices, the exception of the first index that is
\* not a row of locations, otherwise the DetailedRoute of the sequence
calculate_single_route_path(route_indices, n_locations, route_id, vehicle_id) ==
    IF Len(route_indices) < 2 THEN NoRoute
    ELSE IF \E k \in DOMAIN route_indices : iloc_raises(route_indices[k], n_locations)
    THEN IndexError
    ELSE [kind |-> "DetailedRoute", route_id |-> route_id, vehicle_id |-> vehicle_id,
          waypoints |-> route_indices]

\* the positions of routes, numbered from 0 as enumerate does
route_ids(routes) == {i - 1 : i \in DOMAIN routes}

\* _calculate_sequential: an exception of a route leaves the loop and the call
RECURSIVE sequential_from(_, _, _, _)
sequential_from(routes, n_locations, i, detailed_routes) ==
    IF i >= Len(routes) THEN Returned(detailed_routes)
    ELSE IF Len(routes[i + 1]) < 2
    THEN sequential_from(routes, n_locations, i + 1, detailed_routes)
    ELSE LET detailed_route ==
                 calculate_single_route_path(routes[i + 1], n_locations, i, i)
         IN  IF detailed_route.kind = "IndexError" THEN Propagated(detailed_route)
             ELSE IF detailed_route.kind # "None"
             THEN sequential_from(routes, n_locations, i + 1,
                                  Append(detailed_routes, detailed_route))
             ELSE sequential_from(routes, n_locations, i + 1, detailed_routes)

calculate_sequential(routes, n_locations) ==
    sequential_from(routes, n_locations, 0, <<>>)

\* detailed_routes.sort(key=lambda x: x.route_id): a stable sort
RECURSIVE insert_by_route_id(_, _)
insert_by_route_id(r, sorted) ==
    IF sorted = <<>> THEN <<r>>
    ELSE IF r.route_id < Head(sorted).route_id THEN <<r>> \o sorted
    ELSE <<Head(sorted)>> \o insert_by_route_id(r, Tail(sorted))

RECURSIVE sort_by_route_id(_)
sort_by_route_id(rs) ==
    IF rs = <<>> THEN <<>>
    ELSE insert_by_route_id(rs[Len(rs)], sort_by_route_id(SubSeq(rs, 1, Len(rs) - 1)))

PathsInit ==
    /\ path_routes \in {rs \in SeqsUpTo(RouteIndexLists, MaxRoutes) : Len(rs) >= 1}
    /\ path_n_locations \in LocationCounts
    /\ path_futures = {}
    /\ path_detailed = <<>>
    /\ path_result = None
    /\ path_pc = "ready"
    /\ IdleExcept("paths")

\* calculate_route_paths with one route: the sequential computation
CalculateSequential ==
    /\ path_pc = "ready" /\ Len(path_routes) <= 1
    /\ path_result' = calculate_sequential(path_routes, path_n_locations)
    /\ path_pc' = IF calculate_sequential(path_routes, path_n_locations).raised
                  THEN "raised" ELSE "returned"
    /\ UNCHANGED <<path_routes, path_n_locations, path_futures, path_detailed>>
    /\ UNCHANGED notPathsVars

\* _calculate_parallel: a future is submitted for every route of two or more
\* indices
SubmitRoutes ==
    /\ path_pc = "ready" /\ Len(path_routes) > 1
    /\ path_futures' = {i \in route_ids(path_routes) : Len(path_routes[i + 1]) >= 2}
    /\ path_pc' = "submitted"
    /\ UNCHANGED <<path_routes, path_n_locations, path_detailed, path_result>>
    /\ UNCHANGED notPathsVars

\* as_completed hands over the next finished future, whichever it is; its
\* result is appended, its exception is logged
FutureCompleted ==
    /\ path_pc = "submitted"
    /\ \E i \in path_futures :
          LET detailed_route ==
                  calculate_single_route_path(path_routes[i + 1], path_n_locations, i, i)
          IN  /\ path_futures' = path_futures \ {i}
              /\ path_detailed' = IF detailed_route.kind \in {"IndexError", "None"}
                                  THEN path_detailed
                                  ELSE Append(path_detailed, detailed_route)
    /\ UNCHANGED <<path_routes, path_n_locations, path_result, path_pc>>
    /\ UNCHANGED notPathsVars

\* every future has been handed over: sort by route_id and return
ReturnSorted ==
    /\ path_pc = "submitted" /\ path_futures = {}
    /\ path_result' = Returned(sort_by_route_id(path_detailed))
    /\ path_pc' = "returned"
    /\ UNCHANGED <<path_routes, path_n_locations, path_futures, path_detailed>>
    /\ UNCHANGED notPathsVars

PathsNext == CalculateSequential \/ SubmitRoutes \/ FutureCompleted \/ ReturnSorted

SpecPaths == PathsInit /\ [][PathsNext]_vars

\* C30: the list the parallel computation returns is ordered by route index
\* and holds the same routes as the sequential computation on the same input,
\* whatever the order in which the futures complete.
C30_ParallelMatchesSequential ==
    (path_pc = "returned" /\ Len(path_routes) > 1) =>
        /\ \A i, j \in DOMAIN path_result.routes :
              i < j => path_result.routes[i].route_id < path_result.routes[j].route_id
        /\ path_result = calculate_sequential(path_routes, path_n_locations)

\* the part of C30 that holds: when no route's computation raises, the list
\* returned is the sequential one
C30_SameWhenNothingRaises ==
    (path_pc = "returned" /\ Len(path_routes) > 1
        /\ ~calculate_sequential(path_routes, path_n_locations).raised) =>
        path_result = calculate_sequential(path_routes, path_n_locations)

====
